---------------------------- MODULE Spec2Model ----------------------------
(***************************************************************************)
(* A model of germinate's seed handling (germinate/seeds.py): opening a    *)
(* seed from a list of seed bases and branches, with or without a VCS      *)
(* checkout cache; parsing STRUCTURE files with include lines; expanding   *)
(* inheritance; and the limit / add operations of SeedStructure.  Further  *)
(* parts model concurrent openers of the VCS checkout cache and           *)
(* AtomicFile.                                                             *)
(***************************************************************************)
EXTENDS Integers, Sequences, FiniteSets, TLC

VARIABLES
    remote,      \* the seed collections that exist: <<base, branch>> -> repository
    vcs_cache,   \* seeds.py _vcs_cache_dir and the checkouts below it
    seed,        \* the result of the last Seed(bases, branches, name, vcs) call
    structure,   \* the SeedStructure object (or why its construction failed)
    call,        \* the last call made on the model and its arguments
    openers,     \* threads inside _open_seed_git and the cache directory they share
    atomic,      \* an AtomicFile object and the two files it works on
    tagfile,     \* a TagFile object, its sections() generator and the archive it reads
    run,         \* one run of germinate_main.main: options, position, calls made, files written
    germ,        \* a Germinator: the universe, the seeds planted and the sets attributed to them
    meta         \* update-metapackage at work on one output seed and architecture

seedVars == <<remote, vcs_cache, seed, structure, call>>

\* What the calls on seeds and structures leave alone.
others == <<openers, atomic, tagfile, run, germ, meta>>

vars == <<remote, vcs_cache, seed, structure, call, openers, atomic, tagfile, run, germ,
          meta>>

(***************************************************************************)
(* Bounds of the model.                                                    *)
(***************************************************************************)
MaxParents == 2     \* parents declared on one STRUCTURE line
MaxIncludes == 2    \* branches named by the include lines of one STRUCTURE
MaxOps == 2         \* limit / add calls after construction
MaxLimit == 2       \* seeds named in one limit call
MaxBases == 2       \* seed bases given to one Seed call
MaxOpeners == 2     \* threads opening seeds from a VCS at the same time
MaxWrites == 2      \* write calls inside one AtomicFile context
MaxContexts == 2    \* AtomicFile contexts entered one after another on one filename
StanzasPerIndex == 2 \* stanzas in one index file
MaxFaults == 1      \* indexes of one archive that are not plainly served
MaxSeedPackages == 1 \* --seed-packages entries of one run
MaxEntries == 1     \* entries of one seed

None == "None"

(***************************************************************************)
(* Generic sequence helpers.                                               *)
(***************************************************************************)
Range(s) == {s[i] : i \in 1..Len(s)}

Contains(s, x) == \E i \in 1..Len(s) : s[i] = x

RECURSIVE Reverse(_)
Reverse(s) == IF s = <<>> THEN <<>> ELSE Append(Reverse(Tail(s)), Head(s))

NoDup(s) == \A i, j \in 1..Len(s) : i # j => s[i] # s[j]

\* All duplicate-free sequences over S of length at most n.
RECURSIVE DistinctSeqs(_, _)
DistinctSeqs(S, n) ==
    IF n = 0 THEN {<<>>}
    ELSE LET shorter == DistinctSeqs(S, n - 1)
         IN  shorter \cup UNION {{Append(s, x) : x \in S \ Range(s)} : s \in shorter}

\* Position of the first occurrence of x in s (0 when absent).
IndexOf(s, x) ==
    IF Contains(s, x) THEN CHOOSE i \in 1..Len(s) : s[i] = x /\ \A j \in 1..(i - 1) : s[j] # x
    ELSE 0

\* list.append(x) unless x is already in the list.
AppendNew(s, x) == IF Contains(s, x) THEN s ELSE Append(s, x)

RECURSIVE ExtendNew(_, _)
ExtendNew(s, t) == IF t = <<>> THEN s ELSE ExtendNew(AppendNew(s, Head(t)), Tail(t))

(***************************************************************************)
(* A Python dict: insertion-ordered keys and their values.                 *)
(***************************************************************************)
EmptyDict == [keys |-> <<>>, val |-> <<>>]

DictHas(d, k) == Contains(d.keys, k)

DictGet(d, k) == d.val[IndexOf(d.keys, k)]

\* d[k] = v
DictSet(d, k, v) ==
    IF DictHas(d, k)
    THEN [d EXCEPT !.val[IndexOf(d.keys, k)] = v]
    ELSE [keys |-> Append(d.keys, k), val |-> Append(d.val, v)]

\* d.update(e)
RECURSIVE DictUpdateFrom(_, _, _)
DictUpdateFrom(d, e, i) ==
    IF i > Len(e.keys) THEN d
    ELSE DictUpdateFrom(DictSet(d, e.keys[i], e.val[i]), e, i + 1)

DictUpdate(d, e) == DictUpdateFrom(d, e, 1)


(***************************************************************************)
(* The seed collections.  A seed base is a URL prefix; below it live       *)
(* branches.  Repo(base, branch) says what is served there: nothing, *)
(* a git repository, a bzr branch, or a plain directory readable by URL;   *)
(* which seed files it holds; and the lines of its STRUCTURE file.         *)
(* The text of a seed file is modelled by where it lives:                  *)
(* <<base, branch, name>>, so that texts of different files differ.        *)
(***************************************************************************)
GitBase == "git://g"
BzrBase == "bzr://b"
HttpBase == "http://h"
FileBase == "file:///s"

\* str.startswith for the two prefixes _open_seed tests.
StartsWith(base, prefix) ==
    CASE prefix = "git" -> base \in {GitBase}
      [] prefix = "bzr" -> base \in {BzrBase}
      [] OTHER -> FALSE

NoRepo == [kind |-> "none", seeds |-> {}, structure |-> <<>>]

\* What is served at base/branch.
Repo(base, branch) ==
    IF <<base, branch>> \in DOMAIN remote THEN remote[<<base, branch>>] ELSE NoRepo

FileText(base, branch, name) == <<base, branch, name>>

\* SeedVcs
AUTO == "AUTO"
BZR == "BZR"
GIT == "GIT"

(***************************************************************************)
(* Seed._open_seed_git / Seed._open_seed_bzr.  Both keep one checkout per  *)
(* branch name under _vcs_cache_dir.  A result is                          *)
(*   [outcome, text, cache, cmds]                                          *)
(* where outcome is "ok", "SeedError" or "IOError", cache is the checkout  *)
(* cache afterwards and cmds the fetch commands run so far.                *)
(***************************************************************************)
ReadCheckout(cache, branch, name, cmds) ==
    LET origin == cache.checkout[branch]
    IN  IF name \in Repo(origin, branch).seeds
        THEN [outcome |-> "ok", text |-> FileText(origin, branch, name),
              cache |-> cache, cmds |-> cmds]
        ELSE [outcome |-> "IOError", text |-> <<>>, cache |-> cache, cmds |-> cmds]

OpenSeedVcs(tool, cache, base, branch, name, cmds) ==
    LET c1 == IF cache.dir = None
              THEN [cache EXCEPT !.dir = "germinate-", !.made = @ + 1]
              ELSE cache
    IN  IF c1.checkout[branch] = None
        THEN LET ran == Append(cmds, <<tool, base, branch>>)
             IN  IF Repo(base, branch).kind = tool
                 THEN ReadCheckout([c1 EXCEPT !.checkout[branch] = base],
                                   branch, name, ran)
                 ELSE [outcome |-> "SeedError", text |-> <<>>,
                       cache |-> c1, cmds |-> ran]
        ELSE ReadCheckout(c1, branch, name, cmds)

open_seed_bzr(cache, base, branch, name, cmds) ==
    OpenSeedVcs("bzr", cache, base, branch, name, cmds)

open_seed_git(cache, base, branch, name, cmds) ==
    OpenSeedVcs("git", cache, base, branch, name, cmds)

\* Seed._open_seed_url: a plain open or an HTTP download of base/branch/name.
open_seed_url(cache, base, branch, name, cmds) ==
    LET ran == Append(cmds, <<"url", base, branch>>)
    IN  IF Repo(base, branch).kind = "plain"
           /\ name \in Repo(base, branch).seeds
        THEN [outcome |-> "ok", text |-> FileText(base, branch, name),
              cache |-> cache, cmds |-> ran]
        ELSE [outcome |-> "IOError", text |-> <<>>, cache |-> cache, cmds |-> ran]

\* No sniffing of the base: the selected VCS is kept as it is.
DetectVcs_NoSniff(base, vcs) == vcs

\* The VCS that _open_seed settles on before it dispatches.
DetectVcs(base, vcs) ==
    IF vcs = AUTO
    THEN IF StartsWith(base, "git") THEN GIT
         ELSE IF StartsWith(base, "bzr") THEN BZR
         ELSE AUTO
    ELSE vcs

\* The undetected case: git first, bzr when git raises SeedError.
OpenSeedBoth(cache, base, branch, name, cmds) ==
    LET Tried(g) ==
            IF g.outcome = "SeedError"
            THEN open_seed_bzr(g.cache, base, branch, name, g.cmds)
            ELSE g
    IN  Tried(open_seed_git(cache, base, branch, name, cmds))

\* Seed._open_seed
open_seed(cache, base, branch, name, vcs, cmds) ==
    IF vcs # None
    THEN LET v == DetectVcs(base, vcs)
         IN  IF v = AUTO THEN OpenSeedBoth(cache, base, branch, name, cmds)
             ELSE IF v = GIT THEN open_seed_git(cache, base, branch, name, cmds)
             ELSE open_seed_bzr(cache, base, branch, name, cmds)
    ELSE open_seed_url(cache, base, branch, name, cmds)

(***************************************************************************)
(* Seed.__init__: for base in bases, for branch in branches, try to open;  *)
(* the first open that succeeds gives the text and is recorded in _base    *)
(* and _branch.  SeedError, OSError, IOError and URLError of an attempt    *)
(* are swallowed.  tried lists the attempts made, in order.                *)
(***************************************************************************)
NextPair(bases, branches, i, j) ==
    IF j < Len(branches) THEN <<i, j + 1>> ELSE <<i + 1, 1>>

RECURSIVE SeedInitLoop(_, _, _, _, _, _, _, _, _)
SeedInitLoop(bases, branches, name, vcs, i, j, cache, cmds, tried) ==
    IF i > Len(bases) \/ branches = <<>>
    THEN [status |-> "SeedError", name |-> name, base |-> None, branch |-> None,
          text |-> <<>>, cache |-> cache, cmds |-> cmds, tried |-> tried]
    ELSE LET Opened(r, t, n) ==
                 IF r.outcome = "ok"
                 THEN [status |-> "ok", name |-> name, base |-> bases[i],
                       branch |-> branches[j], text |-> r.text,
                       cache |-> r.cache, cmds |-> r.cmds, tried |-> t]
                 ELSE SeedInitLoop(bases, branches, name, vcs, n[1], n[2],
                                   r.cache, r.cmds, t)
             Attempt(r) ==
                 Opened(r, Append(tried, <<bases[i], branches[j], r.outcome>>),
                        NextPair(bases, branches, i, j))
         IN  Attempt(open_seed(cache, bases[i], branches[j], name, vcs, cmds))

SeedInit(cache, bases, branches, name, vcs) ==
    SeedInitLoop(bases, branches, name, vcs, 1, 1, cache, <<>>, <<>>)

\* The fields of a Seed object.
SeedObject(r) == [name |-> r.name, base |-> r.base, branch |-> r.branch, text |-> r.text]

(***************************************************************************)
(* SingleSeedStructure.__init__.  A STRUCTURE file is a sequence of lines; *)
(* a line is [kind, name, words]: "NAME: PARENT ..." is kind "seed" with   *)
(* the parents in words, "include BRANCH ..." and "feature FLAG ..." carry *)
(* their arguments in words.  Blank and comment lines are not modelled:    *)
(* the parser skips them.                                                  *)
(***************************************************************************)
SeedLine(name, parents) == [kind |-> "seed", name |-> name, words |-> parents]

IncludeLine(branches) == [kind |-> "include", name |-> "include", words |-> branches]

FeatureLine(flags) == [kind |-> "feature", name |-> "feature", words |-> flags]

RECURSIVE SingleLoop(_, _, _)
SingleLoop(f, i, acc) ==
    IF i > Len(f) THEN acc
    ELSE LET line == f[i]
         IN  SingleLoop(f, i + 1,
                CASE line.kind = "seed" ->
                        [acc EXCEPT !.seed_order = Append(@, line.name),
                                    !.inherit = DictSet(@, line.name, line.words),
                                    !.lines = Append(@, line)]
                  [] line.kind = "include" ->
                        [acc EXCEPT !.branches = @ \o line.words]
                  [] line.kind = "feature" ->
                        [acc EXCEPT !.features = @ \cup Range(line.words)]
                  [] OTHER -> acc)

SingleSeedStructure(branch, f) ==
    SingleLoop(f, 1, [seed_order |-> <<>>, inherit |-> EmptyDict,
                      branches |-> <<branch>>, lines |-> <<>>, features |-> {}])

(***************************************************************************)
(* SeedStructure._parse.  ctx = [bases, vcs] are the fields _seed_bases    *)
(* and _vcs.  The walk threads got_branches, the checkout cache, the       *)
(* feature set and the list of STRUCTURE files fetched so far.             *)
(***************************************************************************)
\* The lines of the STRUCTURE file whose text a Seed holds.
StructureLines(s) == Repo(s.text[1], s.text[2]).structure

\* del all_structure[i] for the first line naming `name`, then append.
RECURSIVE DeleteFirstNamed(_, _)
DeleteFirstNamed(lines, name) ==
    IF lines = <<>> THEN <<>>
    ELSE IF Head(lines).name = name THEN Tail(lines)
    ELSE <<Head(lines)>> \o DeleteFirstNamed(Tail(lines), name)

RECURSIVE MergeLines(_, _)
MergeLines(all_structure, new) ==
    IF new = <<>> THEN all_structure
    ELSE MergeLines(Append(DeleteFirstNamed(all_structure, Head(new).name), Head(new)),
                    Tail(new))

\* The order in which _parse hands the collected branches to its caller.
ReturnedBranches(all_branches) == Reverse(all_branches)

\* "Attach the main branch's data to the end"
AttachMain(acc, single) ==
    [acc EXCEPT !.seed_order = @ \o single.seed_order,
                !.inherit = DictUpdate(@, single.inherit),
                !.branches = ReturnedBranches(ExtendNew(@, single.branches)),
                !.lines = MergeLines(@, single.lines),
                !.features = @ \cup single.features]

\* Fold one parsed child into the accumulators of its parent.
MergeChild_CopiedGot(acc, c) ==
    [status |-> "ok",
     seed_order |-> acc.seed_order \o c.seed_order,
     inherit |-> DictUpdate(acc.inherit, c.inherit),
     branches |-> ExtendNew(acc.branches, c.branches),
     lines |-> MergeLines(acc.lines, c.lines),
     got |-> acc.got, cache |-> c.cache, fetched |-> c.fetched,
     features |-> c.features]
MergeChild(acc, c) ==
    [status |-> "ok",
     seed_order |-> acc.seed_order \o c.seed_order,
     inherit |-> DictUpdate(acc.inherit, c.inherit),
     branches |-> ExtendNew(acc.branches, c.branches),
     lines |-> MergeLines(acc.lines, c.lines),
     got |-> c.got, cache |-> c.cache, fetched |-> c.fetched,
     features |-> c.features]

RECURSIVE Parse(_, _, _)
RECURSIVE ParseChildren(_, _, _, _)
ParseChildren(ctx, children, k, acc) ==
    IF k > Len(children) \/ acc.status # "ok" THEN acc
    ELSE IF children[k] \in acc.got
    THEN ParseChildren(ctx, children, k + 1, acc)
    ELSE LET Parsed(c) ==
                 IF c.status # "ok"
                 THEN [acc EXCEPT !.status = c.status, !.cache = c.cache,
                                  !.fetched = c.fetched]
                 ELSE ParseChildren(ctx, children, k + 1, MergeChild(acc, c))
         IN  Parsed(Parse(ctx, children[k],
                          [got |-> acc.got, cache |-> acc.cache,
                           fetched |-> acc.fetched, features |-> acc.features]))

Parse(ctx, branch, st) ==
    LET Start(s) ==
            [status |-> s.status, seed_order |-> <<>>, inherit |-> EmptyDict,
             branches |-> <<>>, lines |-> <<>>,
             got |-> st.got \cup {branch}, cache |-> s.cache,
             fetched |-> Append(st.fetched, branch),
             features |-> st.features]
        Attach(single, acc) ==
            IF acc.status # "ok" THEN acc
            ELSE AttachMain(acc, single)
        Walk(single, start) ==
            Attach(single, ParseChildren(ctx, single.branches, 1, start))
        Fetched(s, start) ==
            IF s.status # "ok" THEN start
            ELSE Walk(SingleSeedStructure(branch, StructureLines(s)), start)
        Opened(s) == Fetched(s, Start(s))
    IN  Opened(SeedInit(st.cache, ctx.bases, <<branch>>, "STRUCTURE", ctx.vcs))

(***************************************************************************)
(* germinate.tsort.topo_sort: the names of a graph (name -> predecessors)  *)
(* with predecessors first, stable with respect to insertion order; the    *)
(* nodes of a cycle are emitted in insertion order after their external    *)
(* predecessors.                                                           *)
(***************************************************************************)
\* The predecessors of n among the nodes not yet emitted, transitively.
RECURSIVE PendingUp(_, _, _, _)
PendingUp(graph, pending, set, k) ==
    IF k = 0 THEN set
    ELSE PendingUp(graph, pending,
                   set \cup UNION {Range(DictGet(graph, x)) \cap pending : x \in set},
                   k - 1)

PendingBefore(graph, pending, n) ==
    PendingUp(graph, pending, Range(DictGet(graph, n)) \cap pending,
              Cardinality(pending))

\* n can be emitted: whatever must still come before it is on a cycle with it.
Emittable(graph, pending, n) ==
    \A m \in PendingBefore(graph, pending, n) :
        m = n \/ n \in PendingBefore(graph, pending, m)

RECURSIVE TopoLoop(_, _, _)
TopoLoop(graph, out, rest) ==
    IF rest = <<>> THEN out
    ELSE LET pending == Range(rest)
             First(able) ==
                 CHOOSE i \in 1..Len(rest) :
                     /\ rest[i] \in able
                     /\ \A j \in 1..(i - 1) : rest[j] \notin able
             Cycle(n) == {n} \cup PendingBefore(graph, pending, n)
             Emit(cycle) ==
                 TopoLoop(graph,
                          out \o SelectSeq(rest, LAMBDA x : x \in cycle),
                          SelectSeq(rest, LAMBDA x : x \notin cycle))
         IN  Emit(Cycle(rest[First({n \in pending : Emittable(graph, pending, n)})]))

topo_sort(graph) == TopoLoop(graph, <<>>, graph.keys)

(***************************************************************************)
(* SeedStructure._expand_inheritance.  `seen` of the code always holds     *)
(* exactly the members of new_inherit, so "not in seen" is "not yet in     *)
(* new_inherit".                                                           *)
(***************************************************************************)
\* The same loops without the `seen` test.
ExpandInheritee_Unseen(inherit, new_inherit, inheritee) ==
    Append(new_inherit \o DictGet(inherit, inheritee), inheritee)

\* The inner loops for one inheritee: its expansion first, then itself.
ExpandInheritee(inherit, new_inherit, inheritee) ==
    AppendNew(ExtendNew(new_inherit, DictGet(inherit, inheritee)), inheritee)

RECURSIVE ExpandParents(_, _, _, _)
ExpandParents(inherit, parents, i, new_inherit) ==
    IF i > Len(parents) THEN new_inherit
    ELSE ExpandParents(inherit, parents, i + 1,
                       ExpandInheritee(inherit, new_inherit, parents[i]))

RECURSIVE ExpandLoop(_, _, _)
ExpandLoop(inherit, names, i) ==
    IF i > Len(names) THEN inherit
    ELSE ExpandLoop(DictSet(inherit, names[i],
                            ExpandParents(inherit, DictGet(inherit, names[i]), 1, <<>>)),
                    names, i + 1)

\* self._inherit[inheritee] raises KeyError for a parent that is no seed.
ExpandRaises(inherit) ==
    \E k \in Range(inherit.keys) : \E q \in Range(DictGet(inherit, k)) : ~DictHas(inherit, q)

expand_inheritance(st) ==
    IF ExpandRaises(st.inherit) THEN [st EXCEPT !.status = "KeyError"]
    ELSE LET Sorted(names) ==
                 [st EXCEPT !.original_inherit = st.inherit,
                            !.names = names,
                            !.inherit = ExpandLoop(st.inherit, names, 1)]
         IN  Sorted(topo_sort(st.inherit))

(***************************************************************************)
(* SeedStructure.__init__                                                  *)
(***************************************************************************)
NoStructure ==
    [status |-> "none", branch |-> None, features |-> {}, seed_order |-> <<>>,
     inherit |-> EmptyDict, original_inherit |-> EmptyDict, names |-> <<>>,
     seeds |-> EmptyDict, lines |-> <<>>, branches |-> <<>>, fetched |-> <<>>]

\* for seed in self._seed_order: self._seeds[seed] = self.make_seed(...)
RECURSIVE MakeSeeds(_, _, _, _)
MakeSeeds(ctx, branches, seed_order, acc) ==
    IF seed_order = <<>> \/ acc.status # "ok" THEN acc
    ELSE LET Made(s) ==
                 MakeSeeds(ctx, branches, Tail(seed_order),
                           [status |-> s.status, cache |-> s.cache,
                            seeds |-> IF s.status = "ok"
                                      THEN DictSet(acc.seeds, Head(seed_order),
                                                   SeedObject(s))
                                      ELSE acc.seeds])
         IN  Made(SeedInit(acc.cache, ctx.bases, branches, Head(seed_order), ctx.vcs))

\* The result is [st, cache]: the object (st.status says whether the
\* constructor returned or what it raised) and the checkout cache afterwards.
SeedStructureInit(cache, branch, seed_bases, vcs) ==
    LET ctx == [bases |-> seed_bases, vcs |-> vcs]
        Fields(p, made) ==
            [NoStructure EXCEPT !.status = "ok", !.branch = branch,
                                !.features = p.features,
                                !.seed_order = p.seed_order,
                                !.inherit = p.inherit,
                                !.lines = p.lines,
                                !.branches = p.branches,
                                !.fetched = p.fetched,
                                !.seeds = made.seeds]
        Made(p, made) ==
            IF made.status # "ok"
            THEN [st |-> [NoStructure EXCEPT !.status = made.status,
                                             !.fetched = p.fetched],
                  cache |-> made.cache]
            ELSE [st |-> expand_inheritance(Fields(p, made)), cache |-> made.cache]
        Parsed(p) ==
            IF p.status # "ok"
            THEN [st |-> [NoStructure EXCEPT !.status = p.status, !.fetched = p.fetched],
                  cache |-> p.cache]
            ELSE Made(p, MakeSeeds(ctx, p.branches, p.seed_order,
                                   [status |-> "ok", cache |-> p.cache,
                                    seeds |-> EmptyDict]))
    IN  Parsed(Parse(ctx, branch, [got |-> {}, cache |-> cache,
                                   fetched |-> <<>>, features |-> {}]))

(***************************************************************************)
(* SeedStructure.limit, add, inner_seeds, outer_seeds, supported, names.   *)
(* A lookup self._inherit[k] of a missing key raises KeyError; the         *)
(* operators that can raise return KeyError in place of a list.            *)
(***************************************************************************)
KeyError == <<"KeyError">>

RECURSIVE LimitLoop(_, _, _, _)
LimitLoop(inherit, seeds, i, names) ==
    IF i > Len(seeds) THEN names
    ELSE LimitLoop(inherit, seeds, i + 1,
                   AppendNew(ExtendNew(names, DictGet(inherit, seeds[i])), seeds[i]))

limit(st, seeds) == [st EXCEPT !.names = LimitLoop(st.inherit, seeds, 1, <<>>)]

\* '\n'.join(entries) + '\n', a text being a sequence of lines and newlines.
RECURSIVE JoinNewline(_)
JoinNewline(entries) ==
    IF entries = <<>> THEN <<>>
    ELSE IF Len(entries) = 1 THEN entries
    ELSE <<Head(entries), "\n">> \o JoinNewline(Tail(entries))

CustomSeed(name, entries) ==
    [name |-> name, base |-> None, branch |-> None,
     text |-> JoinNewline(entries) \o <<"\n">>]

\* The parent's inherit list alone, without the parent itself.
AddInherit_NoParent(st, parent) ==
    IF parent # None THEN DictGet(st.inherit, parent)
    ELSE <<parent>>

\* The inherit list add gives the new seed.
AddInherit(st, parent) ==
    IF parent # None THEN Append(DictGet(st.inherit, parent), parent)
    ELSE <<parent>>

add(st, name, entries, parent) ==
    [st EXCEPT !.names = Append(@, name),
               !.inherit = DictSet(@, name, AddInherit(st, parent)),
               !.seeds = DictSet(@, name, CustomSeed(name, entries))]

inner_seeds(st, seedname) ==
    IF ~DictHas(st.inherit, seedname) THEN KeyError
    ELSE Append(DictGet(st.inherit, seedname), seedname)

strictly_outer_seeds(st, seedname) ==
    IF \E i \in 1..Len(st.names) : ~DictHas(st.inherit, st.names[i]) THEN KeyError
    ELSE SelectSeq(st.names, LAMBDA s : Contains(DictGet(st.inherit, s), seedname))

outer_seeds(st, seedname) ==
    IF strictly_outer_seeds(st, seedname) = KeyError THEN KeyError
    ELSE <<seedname>> \o strictly_outer_seeds(st, seedname)

\* The last of the names instead of the last in structure order.
supported_LastName(st) ==
    IF st.names = <<>> THEN "IndexError" ELSE st.names[Len(st.names)]

\* self._seed_order[-1]
supported(st) ==
    IF st.seed_order = <<>> THEN "IndexError" ELSE st.seed_order[Len(st.seed_order)]

names(st) == st.names

(***************************************************************************)
(* The inputs.  Every behaviour starts from one seed collection layout.    *)
(***************************************************************************)
AllBases == {GitBase, BzrBase, HttpBase, FileBase}

TopBranch == "T"

IncludeBranches == {"T", "X", "Y"}

VcsBranches == {"r", "s"}

AllBranches == IncludeBranches \cup VcsBranches

Seeds == {"a", "b", "c"}

NoRemote == [p \in AllBases \X AllBranches |-> NoRepo]

\* A layout, keeping only the places where something is served.
Served(layout) == [p \in {q \in DOMAIN layout : layout[q].kind # "none"} |-> layout[p]]

EmptyCache == [dir |-> None, made |-> 0, checkout |-> [b \in AllBranches |-> None]]

NoSeed == [status |-> "none", name |-> None, base |-> None, branch |-> None,
           text |-> <<>>, cmds |-> <<>>, tried |-> <<>>]

NoCall == [op |-> "none", n |-> 0, seeds |-> <<>>, name |-> None, entries |-> <<>>,
           parent |-> None, bases |-> <<>>, branches |-> <<>>, vcs |-> None]

PlainRepo(files, lines) ==
    [kind |-> "plain", seeds |-> files \cup {"STRUCTURE"}, structure |-> lines]

\* One branch whose STRUCTURE lists some of the seeds a, b, c, in any order,
\* each with any list of at most MaxParents declared parents; every seed
\* has its seed file.
RECURSIVE LinesFor(_, _)
LinesFor(order, parents) ==
    IF order = <<>> THEN <<>>
    ELSE <<SeedLine(Head(order), parents[Head(order)])>> \o LinesFor(Tail(order), parents)

InheritWorlds ==
    {Served([NoRemote EXCEPT ![<<FileBase, TopBranch>>] =
                                   PlainRepo(Seeds, LinesFor(order, parents))]) :
        order \in DistinctSeqs(Seeds, Cardinality(Seeds)) \ {<<>>},
        parents \in [Seeds -> DistinctSeqs(Seeds, MaxParents)]}

\* Three branches T, X, Y that include one another in any way.  Each defines
\* a seed of its own (t, x, y); some also define the shared seed n, with
\* their own seed as its parent; some of those hold a seed file n.
Marker(branch) == CASE branch = "T" -> "t" [] branch = "X" -> "x" [] OTHER -> "y"

IncludeStructure(branch, includes, defines) ==
    (IF includes = <<>> THEN <<>> ELSE <<IncludeLine(includes)>>)
    \o <<SeedLine(Marker(branch), <<>>)>>
    \o (IF defines THEN <<SeedLine("n", <<Marker(branch)>>)>> ELSE <<>>)

\* One branch whose STRUCTURE is sorted as its documentation asks (inherited
\* seeds first): a, then b, then c, each inheriting only from earlier seeds.
SortedWorlds ==
    {Served([NoRemote EXCEPT ![<<FileBase, TopBranch>>] =
          PlainRepo(Seeds, <<SeedLine("a", <<>>), SeedLine("b", pb), SeedLine("c", pc)>>)]) :
        pb \in DistinctSeqs({"a"}, MaxParents),
        pc \in DistinctSeqs({"a", "b"}, MaxParents)}

\* Seed collections behind a git URL, a bzr URL and an HTTP URL, for the
\* branches r and s.  The git and HTTP collections may be missing, a git
\* repository may lack the seed file n, and the HTTP URL may serve a git
\* repository or a plain directory.
GitRepo(files) == [kind |-> "git", seeds |-> files, structure |-> <<>>]

BzrRepo(files) == [kind |-> "bzr", seeds |-> files, structure |-> <<>>]

SeedBases == {GitBase, BzrBase, HttpBase}

SeedWorlds ==
    {Served([NoRemote EXCEPT ![<<GitBase, "r">>] = gr,
                             ![<<GitBase, "s">>] = GitRepo({"n"}),
                             ![<<BzrBase, "r">>] = BzrRepo({"n"}),
                             ![<<HttpBase, "r">>] = hr,
                             ![<<HttpBase, "s">>] = PlainRepo({"n"}, <<>>)]) :
        gr \in {NoRepo, GitRepo({"n"}), GitRepo({})},
        hr \in {NoRepo, GitRepo({"n"}), PlainRepo({"n"}, <<>>)}}

DefinesAndFiles ==
    {df \in (SUBSET IncludeBranches) \X (SUBSET IncludeBranches) : df[2] \subseteq df[1]}

IncludeWorlds ==
    {[p \in {FileBase} \X IncludeBranches |->
        PlainRepo({Marker(p[2])} \cup (IF p[2] \in df[2] THEN {"n"} ELSE {}),
                  IncludeStructure(p[2], includes[p[2]], p[2] \in df[1]))] :
        includes \in [IncludeBranches -> DistinctSeqs(IncludeBranches, MaxIncludes)],
        df \in DefinesAndFiles}

(***************************************************************************)
(* The actions: one per call.                                              *)
(***************************************************************************)
\* structure = SeedStructure(TopBranch, [FileBase])
Construct ==
    /\ structure.status = "none"
    /\ LET Built(r) == structure' = r.st /\ vcs_cache' = r.cache
       IN  Built(SeedStructureInit(vcs_cache, TopBranch, <<FileBase>>, None))
    /\ call' = [NoCall EXCEPT !.op = "construct"]
    /\ UNCHANGED <<remote, seed, others>>

\* structure.limit(seeds)
Limit ==
    /\ structure.status = "ok"
    /\ call.n < MaxOps
    /\ \E seeds \in DistinctSeqs(Range(structure.inherit.keys), MaxLimit) :
          /\ structure' = limit(structure, seeds)
          /\ call' = [NoCall EXCEPT !.op = "limit", !.n = call.n + 1, !.seeds = seeds]
    /\ UNCHANGED <<remote, vcs_cache, seed, others>>

AddNames == {"x", "a"}

AddEntries == {<<>>, <<" * p">>, <<" * p", " * q">>}

\* structure.add(name, entries, parent)
Add ==
    /\ structure.status = "ok"
    /\ call.n < MaxOps
    /\ \E name \in AddNames, entries \in AddEntries,
          parent \in (Range(structure.inherit.keys) \cup {None}) :
          /\ structure' = add(structure, name, entries, parent)
          /\ call' = [NoCall EXCEPT !.op = "add", !.n = call.n + 1, !.name = name,
                                    !.entries = entries, !.parent = parent]
    /\ UNCHANGED <<remote, vcs_cache, seed, others>>

\* seed = Seed(bases, branches, "n", vcs)
NewSeed ==
    /\ \E bases \in DistinctSeqs(SeedBases, MaxBases),
          branches \in {<<"r">>, <<"r", "s">>, <<"s", "r">>},
          vcs \in {None, AUTO, BZR, GIT} :
          LET Built(r) ==
                  /\ seed' = [status |-> r.status, name |-> r.name, base |-> r.base,
                              branch |-> r.branch, text |-> r.text,
                              cmds |-> r.cmds, tried |-> r.tried]
                  /\ vcs_cache' = r.cache
          IN  /\ Built(SeedInit(vcs_cache, bases, branches, "n", vcs))
              /\ call' = [NoCall EXCEPT !.op = "seed", !.name = "n", !.bases = bases,
                                        !.branches = branches, !.vcs = vcs]
    /\ UNCHANGED <<remote, structure, others>>

(***************************************************************************)
(* Seed._open_seed_git / _open_seed_bzr run by several threads of one      *)
(* process.  Nothing in the functions is locked, so every statement is a   *)
(* step of its own: the test of _vcs_cache_dir, mkdtemp with the           *)
(* assignment, the isdir test of the checkout, the start and the end of    *)
(* the clone command (subprocess.call blocks the thread meanwhile), and    *)
(* the open of the seed file.  Directories made by mkdtemp are numbered.   *)
(***************************************************************************)
Openers == 1..MaxOpeners

Checkouts == Openers \X VcsBranches

IdleOpener == [pc |-> "idle", branch |-> None, checkout |-> <<0, None>>, read |-> "none"]

NoOpeners ==
    [cache_dir |-> 0, made |-> 0,
     state |-> [c \in Checkouts |-> "absent"],
     started |-> [c \in Checkouts |-> 0],
     th |-> [p \in Openers |-> IdleOpener]]

\* A thread calls _open_seed_git(base, branch, name).
OpenerCall(p) ==
    /\ openers.th[p].pc = "idle"
    /\ \E branch \in VcsBranches :
          openers' = [openers EXCEPT !.th[p].pc = "test_cache",
                                     !.th[p].branch = branch]
    /\ UNCHANGED <<seedVars, atomic, tagfile, run, germ, meta>>

\* if _vcs_cache_dir is None:
OpenerTestCache(p) ==
    /\ openers.th[p].pc = "test_cache"
    /\ openers' = [openers EXCEPT !.th[p].pc =
                       IF openers.cache_dir = 0 THEN "mkdtemp" ELSE "test_checkout"]
    /\ UNCHANGED <<seedVars, atomic, tagfile, run, germ, meta>>

\* _vcs_cache_dir = tempfile.mkdtemp(prefix='germinate-')
OpenerMkdtemp(p) ==
    /\ openers.th[p].pc = "mkdtemp"
    /\ openers' = [openers EXCEPT !.made = @ + 1, !.cache_dir = openers.made + 1,
                                  !.th[p].pc = "test_checkout"]
    /\ UNCHANGED <<seedVars, atomic, tagfile, run, germ, meta>>

\* checkout = os.path.join(_vcs_cache_dir, branch); if not os.path.isdir(checkout):
OpenerTestCheckout(p) ==
    /\ openers.th[p].pc = "test_checkout"
    /\ LET Joined(c) ==
               openers' = [openers EXCEPT !.th[p].checkout = c,
                                          !.th[p].pc = IF openers.state[c] = "absent"
                                                       THEN "clone" ELSE "open"]
       IN  Joined(<<openers.cache_dir, openers.th[p].branch>>)
    /\ UNCHANGED <<seedVars, atomic, tagfile, run, germ, meta>>

\* subprocess.call(['git', 'clone', ...]) starts and makes the directory.
OpenerStartClone(p) ==
    /\ openers.th[p].pc = "clone"
    /\ openers' = [openers EXCEPT
                       !.started[openers.th[p].checkout] = @ + 1,
                       !.state[openers.th[p].checkout] =
                           IF @ = "absent" THEN "cloning" ELSE @,
                       !.th[p].pc = "cloning"]
    /\ UNCHANGED <<seedVars, atomic, tagfile, run, germ, meta>>

\* The clone command ends with status 0.
OpenerCloneDone(p) ==
    /\ openers.th[p].pc = "cloning"
    /\ openers' = [openers EXCEPT !.state[openers.th[p].checkout] = "complete",
                                  !.th[p].pc = "open"]
    /\ UNCHANGED <<seedVars, atomic, tagfile, run, germ, meta>>

\* The clone command finds the directory taken by another clone and ends
\* with a non-zero status: raise SeedError.
OpenerCloneFails(p) ==
    /\ openers.th[p].pc = "cloning"
    /\ openers.started[openers.th[p].checkout] > 1
    /\ openers' = [openers EXCEPT !.th[p].pc = "SeedError"]
    /\ UNCHANGED <<seedVars, atomic, tagfile, run, germ, meta>>

\* return open(os.path.join(checkout, name))
OpenerOpen(p) ==
    /\ openers.th[p].pc = "open"
    /\ openers' = [openers EXCEPT !.th[p].read = openers.state[openers.th[p].checkout],
                                  !.th[p].pc = "returned"]
    /\ UNCHANGED <<seedVars, atomic, tagfile, run, germ, meta>>

(***************************************************************************)
(* AtomicFile.  The object works on two paths, filename and filename.new;  *)
(* a file is Absent or its content, a sequence of the strings written.     *)
(* The object of the model remembers what was written through it and what  *)
(* filename held when it was created.                                      *)
(***************************************************************************)
Absent == <<"absent">>

Chunks == {"x", "y"}

OldContents == {Absent, <<>>, <<"old">>}

NoAtomic ==
    [state |-> "none", exc |-> None, written |-> <<>>, before |-> Absent,
     file |-> Absent, new |-> Absent, n |-> 0]

\* os.rename(src, dst) on the two files of the object.
Rename_Copy(a) == [a EXCEPT !.file = a.new]

Rename(a) == [a EXCEPT !.file = a.new, !.new = Absent]

\* AtomicFile(filename): opens filename.new for writing, truncating it.
AtomicInit ==
    /\ atomic.state \in {"none", "exited"}
    /\ atomic.n < MaxContexts
    /\ atomic' = [atomic EXCEPT !.state = "open", !.new = <<>>, !.exc = None,
                                !.written = <<>>, !.before = atomic.file,
                                !.n = @ + 1]
    /\ UNCHANGED <<seedVars, openers, tagfile, run, germ, meta>>

\* fd.write(s) inside the context
AtomicWrite ==
    /\ atomic.state = "open"
    /\ Len(atomic.written) < MaxWrites
    /\ \E chunk \in Chunks :
          atomic' = [atomic EXCEPT !.new = Append(@, chunk),
                                  !.written = Append(@, chunk)]
    /\ UNCHANGED <<seedVars, openers, tagfile, run, germ, meta>>

\* __exit__(exc_type, ...): close; rename only when exc_type is None.
AtomicFileExit_AlwaysRename(a, exc_type) ==
    Rename([a EXCEPT !.state = "exited", !.exc = exc_type])
AtomicFileExit(a, exc_type) ==
    IF exc_type = None
    THEN Rename([a EXCEPT !.state = "exited", !.exc = exc_type])
    ELSE [a EXCEPT !.state = "exited", !.exc = exc_type]

AtomicExit ==
    /\ atomic.state = "open"
    /\ \E exc_type \in {None, "Exception"} :
          atomic' = AtomicFileExit(atomic, exc_type)
    /\ UNCHANGED <<seedVars, openers, tagfile, run, germ, meta>>

(***************************************************************************)
(* SeedStructure.write_dot.  A line of the dot file is a tuple of strings; *)
(* an edge line is <<parent, "->", seed>>.                                 *)
(***************************************************************************)
DotLine(inherit, seedname) == <<inherit, "->", seedname>>

\* for inherit in self._original_inherit[seed]: print the edge
DotSeed(st, seedname) ==
    IF ~DictHas(st.original_inherit, seedname) THEN <<>>
    ELSE [i \in 1..Len(DictGet(st.original_inherit, seedname)) |->
              DotLine(DictGet(st.original_inherit, seedname)[i], seedname)]

\* for seed in self._seed_order:
RECURSIVE DotLoop(_, _, _)
DotLoop(st, i, lines) ==
    IF i > Len(st.seed_order) THEN lines
    ELSE DotLoop(st, i + 1, lines \o DotSeed(st, st.seed_order[i]))

\* The lines printed to the dot file.
write_dot(st) ==
    <<<<"digraph structure {">>, <<"    node [color=lightblue2, style=filled];">>>>
    \o DotLoop(st, 1, <<>>)
    \o <<<<"}">>>>

\* structure.write_dot(filename): the lines go through an AtomicFile that
\* exits cleanly.
WriteDot ==
    /\ structure.status = "ok"
    /\ atomic.state = "none"
    /\ LET Printed(lines) ==
               atomic' = Rename([atomic EXCEPT !.state = "exited", !.new = lines,
                                               !.written = lines,
                                               !.before = atomic.file,
                                               !.n = @ + 1])
       IN  Printed(write_dot(structure))
    /\ UNCHANGED <<seedVars, openers, tagfile, run, germ, meta>>

(***************************************************************************)
(* germinate.archive.TagFile.  A mirror serves, for an index (mirror,      *)
(* dist, component, type), up to four forms, one per suffix; a form is     *)
(* "missing", "good" or "corrupt" (it downloads but does not decompress).  *)
(* A good form holds StanzasPerIndex stanzas, each named after the form it *)
(* came from.  The download directory maps file names to contents.         *)
(* env = [index, kind, lzma, arch]: the forms served, the kind of each     *)
(* mirror ("file" for a file:// URL, "remote" otherwise), whether the lzma *)
(* module is chosen for .xz (the test sys.version >= "3.3"), and the       *)
(* architecture the TagFile was made for (self._arch).  A mirror serves    *)
(* every architecture in the same forms; the stanzas of a binary index     *)
(* name the architecture in the path they were fetched from.               *)
(***************************************************************************)
Suffixes == <<".xz", ".bz2", ".gz", "">>

\* What a corrupt uncompressed index holds: text apt_pkg.TagFile cannot parse.
Garbage == <<"garbage">>

\* ftppath, as <<directory, file>>: where below dists/DIST/COMPONENT/ the
\* index of a type lies for an architecture.
FtpPath(arch, tagfile_type) ==
    CASE tagfile_type = "Packages" -> <<"binary-" \o arch, "Packages">>
      [] tagfile_type = "Sources" -> <<"source", "Sources">>
      [] tagfile_type = "InstallerPackages" ->
             <<"debian-installer/binary-" \o arch, "Packages">>

\* What the URL mirror/dists/dist/component/ftppath+suffix serves when good.
Stanzas(env, mirror, dist, component, tagfile_type, suffix) ==
    [k \in 1..StanzasPerIndex |->
        <<tagfile_type, mirror, dist, component, suffix, k,
          FtpPath(env.arch, tagfile_type)>>]

\* fullname: the file in the download directory an index is kept in.  For
\* a file URL it is named after the directory of the URL's path; for any
\* other URL after mirror, dist, component and index type.
FullName(env, mirror, dist, component, tagfile_type) ==
    IF env.kind[mirror] = "file"
    THEN <<mirror, dist, component, FtpPath(env.arch, tagfile_type)[1]>>
    ELSE <<mirror, dist, component, tagfile_type>>

Exists(files, fullname) == fullname \in DOMAIN files

Unlink(files, fullname) == [n \in DOMAIN files \ {fullname} |-> files[n]]

WriteFile(files, fullname, content) ==
    [n \in DOMAIN files \cup {fullname} |->
        IF n = fullname THEN content ELSE files[n]]

\* The decompressors: what reading a corrupt form does.  gzip and bz2 raise
\* OSError, lzma raises LZMAError, and the xzcat pipe gives no data and no
\* error.  In each case fullname was opened for writing first.
DecompressCorrupt(env, suffix) ==
    IF suffix = ".xz" THEN (IF env.lzma THEN "LZMAError" ELSE "ok")
    ELSE "IOError"

\* _open_tag_file(mirror, suffix): [outcome, files, content]
open_tag_file(env, files, mirror, dist, component, tagfile_type, suffix) ==
    LET fullname == FullName(env, mirror, dist, component, tagfile_type)
        form == env.index[<<mirror, dist, component, tagfile_type>>][suffix]
        Opened(fs) == [outcome |-> "ok", files |-> fs, content |-> fs[fullname]]
        Raised(exc, fs) == [outcome |-> exc, files |-> fs, content |-> <<>>]
        Fetch(fs) ==
            IF Exists(fs, fullname) THEN Opened(fs)
            ELSE IF form = "missing" THEN Raised("IOError", fs)
            ELSE IF form = "good"
            THEN Opened(WriteFile(fs, fullname,
                                  Stanzas(env, mirror, dist, component, tagfile_type,
                                          suffix)))
            ELSE IF suffix = ""
            THEN Opened(WriteFile(fs, fullname, <<Garbage>>))
            ELSE IF DecompressCorrupt(env, suffix) = "ok"
            THEN Opened(WriteFile(fs, fullname, <<>>))
            ELSE Raised(DecompressCorrupt(env, suffix), WriteFile(fs, fullname, <<>>))
    IN  Fetch(IF env.kind[mirror] = "file" THEN Unlink(files, fullname) ELSE files)

\* for suffix in (".xz", ".bz2", ".gz", ""): the first that opens wins;
\* IOError and OSError are swallowed, anything else propagates.
RECURSIVE TrySuffixes(_, _, _, _, _, _, _, _)
TrySuffixes(env, files, mirror, dist, component, tagfile_type, k, consulted) ==
    IF k > Len(Suffixes)
    THEN [outcome |-> "none", files |-> files, content |-> <<>>, consulted |-> consulted]
    ELSE LET Tried(r) ==
                 IF r.outcome = "IOError"
                 THEN TrySuffixes(env, r.files, mirror, dist, component, tagfile_type,
                                  k + 1, Append(consulted, <<mirror, Suffixes[k]>>))
                 ELSE [outcome |-> r.outcome, files |-> r.files, content |-> r.content,
                       consulted |-> Append(consulted, <<mirror, Suffixes[k]>>)]
         IN  Tried(open_tag_file(env, files, mirror, dist, component, tagfile_type,
                                 Suffixes[k]))

\* _open_tag_files: [outcome, files, tag_files, consulted]; tag_files is the
\* list of contents of the files opened, one per mirror that has the index.
RECURSIVE MirrorLoop(_, _, _, _, _, _, _, _, _)
MirrorLoop(env, files, mirrors, dist, component, tagfile_type, m, tag_files, consulted) ==
    IF m > Len(mirrors)
    THEN [outcome |-> IF tag_files = <<>> THEN "IOError" ELSE "ok",
          files |-> files, tag_files |-> tag_files, consulted |-> consulted]
    ELSE LET Tried(r) ==
                 IF r.outcome \in {"ok", "none"}
                 THEN MirrorLoop(env, r.files, mirrors, dist, component, tagfile_type,
                                 m + 1,
                                 IF r.outcome = "ok" THEN Append(tag_files, r.content)
                                 ELSE tag_files,
                                 r.consulted)
                 ELSE [outcome |-> r.outcome, files |-> r.files,
                       tag_files |-> tag_files, consulted |-> r.consulted]
         IN  Tried(TrySuffixes(env, files, mirrors[m], dist, component, tagfile_type,
                               1, consulted))

open_tag_files(env, files, mirrors, dist, component, tagfile_type) ==
    MirrorLoop(env, files, mirrors, dist, component, tagfile_type, 1, <<>>, <<>>)

\* IndexType
PACKAGES == 1
SOURCES == 2
INSTALLER_PACKAGES == 3

TagfileType(index_type) ==
    CASE index_type = PACKAGES -> "Packages"
      [] index_type = SOURCES -> "Sources"
      [] index_type = INSTALLER_PACKAGES -> "InstallerPackages"

RECURSIVE Concat(_)
Concat(seqs) == IF seqs = <<>> THEN <<>> ELSE Head(seqs) \o Concat(Tail(seqs))

NoFiles == <<>>

\* TagFile.__init__ and a sections() generator not yet started.  np is the
\* index type the generator opens next for the pair (dists[d], components[c]);
\* queue holds the stanzas of the open tag files not yet yielded.
TagFileInit(env, dists, components, mirrors, source_mirrors, installer_packages, cleanup) ==
    [env |-> env, dists |-> dists, components |-> components, mirrors |-> mirrors,
     source_mirrors |-> IF source_mirrors = <<>> THEN mirrors ELSE source_mirrors,
     installer_packages |-> installer_packages, cleanup |-> cleanup,
     pc |-> "new", d |-> 1, c |-> 1, np |-> PACKAGES, type |-> PACKAGES,
     queue |-> <<>>, yielded |-> <<>>, dirname |-> "none", files |-> NoFiles,
     log |-> <<>>, exc |-> None, opened |-> <<>>]

\* dirname = tempfile.mkdtemp(prefix="germinate-") or '.'
Mkdtemp(t) == [t EXCEPT !.dirname = IF t.cleanup THEN "temp" ELSE "."]

\* finally: if self._cleanup: shutil.rmtree(dirname)
Rmtree_Keep(t) == t
Rmtree(t) ==
    IF t.cleanup THEN [t EXCEPT !.dirname = "removed", !.files = NoFiles] ELSE t

NextComponent_SkipRest(t) == [t EXCEPT !.d = t.d + 1, !.c = 1, !.np = PACKAGES]
NextComponent(t) ==
    IF t.c < Len(t.components)
    THEN [t EXCEPT !.c = t.c + 1, !.np = PACKAGES]
    ELSE [t EXCEPT !.d = t.d + 1, !.c = 1, !.np = PACKAGES]

Raise(t, exc) == Rmtree([t EXCEPT !.pc = "raised", !.exc = exc, !.queue = <<>>])

OpenedEntry(t, r) ==
    [type |-> t.np, dist |-> t.dists[t.d], component |-> t.components[t.c],
     outcome |-> r.outcome, consulted |-> r.consulted, tag_files |-> r.tag_files]

\* except IOError around the InstallerPackages files only ("can live
\* without these"): any other failure to open tag files leaves sections().
Fatal_Always(index_type, outcome) == TRUE
Fatal(index_type, outcome) ==
    ~(index_type = INSTALLER_PACKAGES /\ outcome = "IOError")

\* The body of sections() from where it stands to its next yield, to its
\* end, or to the exception that leaves it.
RECURSIVE Resume(_)
Resume(t) ==
    IF t.queue # <<>>
    THEN IF Head(t.queue) = Garbage
         THEN Raise(t, "SystemError")
         ELSE [t EXCEPT !.pc = "suspended", !.queue = Tail(t.queue),
                        !.yielded = Append(t.yielded, <<t.type, Head(t.queue)>>)]
    ELSE IF t.d > Len(t.dists)
    THEN Rmtree([t EXCEPT !.pc = "done"])
    ELSE IF t.np = INSTALLER_PACKAGES /\ ~t.installer_packages
    THEN Resume(NextComponent(t))
    ELSE LET Got(r) ==
                 LET u == [t EXCEPT !.files = r.files,
                                    !.opened = Append(t.opened, OpenedEntry(t, r))]
                 IN  IF r.outcome = "ok"
                     THEN Resume([(IF t.np = INSTALLER_PACKAGES THEN NextComponent(u)
                                   ELSE [u EXCEPT !.np = t.np + 1])
                                  EXCEPT !.type = t.np, !.queue = Concat(r.tag_files)])
                     ELSE IF ~Fatal(t.np, r.outcome)
                     THEN Resume(NextComponent([u EXCEPT !.log =
                              Append(t.log, <<"Missing installer Packages file",
                                              t.components[t.c]>>)]))
                     ELSE Raise(u, r.outcome)
         IN  Got(open_tag_files(t.env, t.files,
                                IF t.np = SOURCES THEN t.source_mirrors ELSE t.mirrors,
                                t.dists[t.d], t.components[t.c], TagfileType(t.np)))

\* next(sections): the first call runs the body from its start.
TagNext ==
    /\ tagfile.pc \in {"new", "suspended"}
    /\ tagfile' = Resume(IF tagfile.pc = "new" THEN Mkdtemp(tagfile) ELSE tagfile)
    /\ UNCHANGED <<seedVars, openers, atomic, run, germ, meta>>

\* sections.close(): GeneratorExit is raised at the yield the generator is
\* suspended at and the finally clause runs; a generator not yet started
\* is closed without running any of its body.
TagClose ==
    /\ tagfile.pc \in {"new", "suspended"}
    /\ tagfile' = IF tagfile.pc = "new" THEN [tagfile EXCEPT !.pc = "closed"]
                  ELSE Rmtree([tagfile EXCEPT !.pc = "closed", !.queue = <<>>])
    /\ UNCHANGED <<seedVars, openers, atomic, run, germ, meta>>

\* A further TagFile, for any architecture, made and iterated in the same
\* working directory once the iteration of the one before is over: what was
\* downloaded into '.' is still there.
Archs == {"i386", "amd64"}

TagFileAgain ==
    /\ tagfile.pc \in {"done", "closed", "raised"}
    /\ \E arch \in Archs :
          tagfile' = [TagFileInit([tagfile.env EXCEPT !.arch = arch], tagfile.dists,
                                  tagfile.components, tagfile.mirrors,
                                  tagfile.source_mirrors, tagfile.installer_packages,
                                  tagfile.cleanup)
                      EXCEPT !.files = tagfile.files]
    /\ UNCHANGED <<seedVars, openers, atomic, run, germ, meta>>

NoTagFile == TagFileInit([index |-> <<>>, kind |-> <<>>, lzma |-> FALSE, arch |-> "i386"],
                         <<>>, <<>>, <<>>, <<>>, FALSE, FALSE)

(***************************************************************************)
(* germinate_main.main, one action per statement.  The Germinator methods  *)
(* are calls into germinate/germinator.py: a call is recorded in phases    *)
(* when it is made, and it returns or raises.  An exception main does not  *)
(* catch ends the run with a traceback and status 1.                       *)
(***************************************************************************)
MainRun(options) ==
    [options |-> options, pc |-> "parse_archive", i |-> 1, phases |-> <<>>,
     caught |-> <<>>, outputs |-> <<>>, status |-> None, exc |-> None]

NoRun == [MainRun([want_rdepends |-> FALSE, seed_packages |-> <<>>, hints |-> FALSE])
             EXCEPT !.pc = "none"]

Called(r, phase) == [r EXCEPT !.phases = Append(@, phase)]

\* sys.exit(1)
SysExit_Pass(r, exc) == [r EXCEPT !.pc = "blacklist"]
SysExit(r, exc) == [r EXCEPT !.pc = "exited", !.status = 1, !.exc = exc]

Uncaught(r, exc) == [r EXCEPT !.pc = "raised", !.status = 1, !.exc = exc]

Wrote(r, files) == [r EXCEPT !.outputs = @ \o files]

\* g.parse_archive(archive)
MainParseArchive ==
    /\ run.pc = "parse_archive"
    /\ \E outcome \in {"ok", "IOError"} :
          run' = IF outcome = "ok"
                 THEN [Called(run, "parse_archive") EXCEPT !.pc = "hints"]
                 ELSE Uncaught(Called(run, "parse_archive"), outcome)
    /\ UNCHANGED <<seedVars, openers, atomic, tagfile, germ, meta>>

\* if os.path.isfile("hints"): g.parse_hints(hints)
MainHints ==
    /\ run.pc = "hints"
    /\ run' = [(IF run.options.hints THEN Called(run, "parse_hints") ELSE run)
                  EXCEPT !.pc = "structure"]
    /\ UNCHANGED <<seedVars, openers, atomic, tagfile, germ, meta>>

\* structure = SeedStructure(options.release, options.seeds, options.vcs)
MainSeedStructure ==
    /\ run.pc = "structure"
    /\ LET Built(r) ==
               /\ structure' = r.st
               /\ vcs_cache' = r.cache
               /\ run' = IF r.st.status = "ok"
                         THEN [Called(run, "SeedStructure") EXCEPT !.pc = "add", !.i = 1]
                         ELSE IF r.st.status = "SeedError"
                         THEN SysExit(Called(run, "SeedStructure"), "SeedError")
                         ELSE Uncaught(Called(run, "SeedStructure"), r.st.status)
       IN  Built(SeedStructureInit(vcs_cache, TopBranch, <<FileBase>>, None))
    /\ UNCHANGED <<remote, seed, call, openers, atomic, tagfile, germ, meta>>

\* for seed_package in options.seed_packages:
\*     structure.add(pkg, [" * " + pkg], parent)
MainAdd ==
    /\ run.pc = "add" /\ run.i <= Len(run.options.seed_packages)
    /\ LET parent == run.options.seed_packages[run.i][1]
           pkg == run.options.seed_packages[run.i][2]
       IN  IF DictHas(structure.inherit, parent)
           THEN /\ structure' = add(structure, pkg, <<" * " \o pkg>>, parent)
                /\ run' = [Called(run, "add") EXCEPT !.i = run.i + 1]
           ELSE /\ run' = Uncaught(Called(run, "add"), "KeyError")
                /\ UNCHANGED structure
    /\ UNCHANGED <<remote, vcs_cache, seed, call, openers, atomic, tagfile, germ, meta>>

\* g.plant_seeds(structure); except SeedError: sys.exit(1)
MainPlantSeeds ==
    /\ run.pc = "add" /\ run.i > Len(run.options.seed_packages)
    /\ \E outcome \in {"ok", "SeedError"} :
          run' = IF outcome = "ok"
                 THEN [Called(run, "plant_seeds") EXCEPT !.pc = "blacklist"]
                 ELSE SysExit(Called(run, "plant_seeds"), outcome)
    /\ UNCHANGED <<seedVars, openers, atomic, tagfile, germ, meta>>

\* with Seed(options.seeds, options.release, "blacklist", options.vcs) as
\* blacklist: g.parse_blacklist(structure, blacklist); except SeedError: pass
MainBlacklist ==
    /\ run.pc = "blacklist"
    /\ LET Opened(r) ==
               /\ seed' = [status |-> r.status, name |-> r.name, base |-> r.base,
                           branch |-> r.branch, text |-> r.text,
                           cmds |-> r.cmds, tried |-> r.tried]
               /\ vcs_cache' = r.cache
               /\ IF r.status = "ok"
                  THEN \E outcome \in {"ok", "SeedError"} :
                          run' = [Called(run, "parse_blacklist") EXCEPT
                                     !.pc = "grow",
                                     !.caught = IF outcome = "ok" THEN @
                                                ELSE Append(@, "parse_blacklist")]
                  ELSE run' = [run EXCEPT !.pc = "grow",
                                          !.caught = Append(@, "Seed")]
       IN  Opened(SeedInit(vcs_cache, <<FileBase>>, <<TopBranch>>, "blacklist", None))
    /\ UNCHANGED <<remote, structure, call, openers, atomic, tagfile, germ, meta>>

\* g.grow(structure)
MainGrow ==
    /\ run.pc = "grow"
    /\ run' = [Called(run, "grow") EXCEPT !.pc = "add_extras"]
    /\ UNCHANGED <<seedVars, openers, atomic, tagfile, germ, meta>>

\* if options.want_rdepends: g.reverse_depends(structure)
AfterAddExtras_Always(options) == "reverse_depends"
AfterAddExtras(options) ==
    IF options.want_rdepends THEN "reverse_depends" ELSE "write"

\* g.add_extras(structure)
MainAddExtras ==
    /\ run.pc = "add_extras"
    /\ run' = [Called(run, "add_extras") EXCEPT !.pc = AfterAddExtras(run.options),
                                                !.i = 1]
    /\ UNCHANGED <<seedVars, openers, atomic, tagfile, germ, meta>>

MainReverseDepends ==
    /\ run.pc = "reverse_depends"
    /\ run' = [Called(run, "reverse_depends") EXCEPT !.pc = "write", !.i = 1]
    /\ UNCHANGED <<seedVars, openers, atomic, tagfile, germ, meta>>

\* The files written for one seedname of structure.names + ["extra"].
SeedOutputs(st, seedname) ==
    <<seedname, seedname \o ".seed", seedname \o ".seed-recommends",
      seedname \o ".depends", seedname \o ".build-depends">>
    \o (IF seedname # "extra" /\ DictHas(st.seeds, seedname)
        THEN <<seedname \o ".seedtext", seedname \o ".sources">> ELSE <<>>)
    \o <<seedname \o ".build-sources">>

MainWriteSeed ==
    /\ run.pc = "write" /\ run.i <= Len(names(structure)) + 1
    /\ run' = [Wrote(run, SeedOutputs(structure,
                                      (names(structure) \o <<"extra">>)[run.i]))
                  EXCEPT !.i = run.i + 1]
    /\ UNCHANGED <<seedVars, openers, atomic, tagfile, germ, meta>>

\* write_all_list ... structure.write_dot("structure.dot")
MainWriteAll ==
    /\ run.pc = "write" /\ run.i > Len(names(structure)) + 1
    /\ run' = IF supported(structure) = "IndexError"
              THEN Uncaught(Wrote(run, <<"all", "all.sources">>), "IndexError")
              ELSE [Wrote(run, <<"all", "all.sources",
                                 supported(structure) \o "+build-depends",
                                 supported(structure) \o "+build-depends.sources",
                                 "all+extra", "all+extra.sources", "provides",
                                 "structure", "structure.dot">>)
                       EXCEPT !.pc = "rdepends"]
    /\ UNCHANGED <<seedVars, openers, atomic, tagfile, germ, meta>>

\* shutil.rmtree("rdepends"); if options.want_rdepends: os.mkdir("rdepends") ...
MainRdepends ==
    /\ run.pc = "rdepends"
    /\ run' = [(IF run.options.want_rdepends THEN Wrote(run, <<"rdepends">>) ELSE run)
                  EXCEPT !.pc = "blacklisted"]
    /\ UNCHANGED <<seedVars, openers, atomic, tagfile, germ, meta>>

\* g.write_blacklisted(structure, "blacklisted"); return 0
MainReturn ==
    /\ run.pc = "blacklisted"
    /\ run' = [Wrote(run, <<"blacklisted">>) EXCEPT !.pc = "returned", !.status = 0]
    /\ UNCHANGED <<seedVars, openers, atomic, tagfile, germ, meta>>

(***************************************************************************)
(* germinate.germinator.Germinator: plant_seeds, grow and add_extras, as   *)
(* the design document describes them (its phases 1, 2 and 4).  The        *)
(* universe gives, per package, the packages its Depends, its Recommends   *)
(* and the Build-Depends of its source name; inherit gives, per seed, its  *)
(* ancestors.  sets[S][kind] are the packages attributed to seed S.        *)
(***************************************************************************)
Kinds == {"seed_entries", "seed_recommends", "depends", "build_depends"}

PkgOrder == <<"p", "q", "r">>

SeqOf(pkgs) == SelectSeq(PkgOrder, LAMBDA x : x \in pkgs)

NoSets == [k \in Kinds |-> {}]

GerminatorInit(world) ==
    [world |-> world, pc |-> "new", i |-> 0,
     sets |-> [S \in Range(world.order) \cup {"extra"} |-> NoSets],
     excluded |-> {},
     blacklisted |-> [S \in Range(world.order) \cup {"extra"} |-> {}],
     why |-> [x \in Range(PkgOrder) |-> None]]

\* The closure of a seed: everything attributed to it.
SeedClosure(g, S) == UNION {g.sets[S][k] : k \in Kinds}

InnerSeeds(g, S) == Range(g.world.inherit[S]) \cup {S}

StrictlyOuterSeeds(g, S) == {T \in Range(g.world.order) : Contains(g.world.inherit[T], S)}

\* A package owned by the seed or by an ancestor is treated as satisfied.
Owned_SelfOnly(g, S, pkg) == pkg \in SeedClosure(g, S)
Owned_AnySeed(g, S, pkg) == \E T \in Range(g.world.order) : pkg \in SeedClosure(g, T)
Owned(g, S, pkg) == \E T \in InnerSeeds(g, S) : pkg \in SeedClosure(g, T)

\* Attribute pkg to sets[S][kind]; a package an outer seed holds is promoted:
\* removed from the outer seed's sets and given to S, with why updated.
Claim_NoPromotion(g, S, pkg, kind, reason) ==
    [g EXCEPT !.sets[S][kind] = @ \cup {pkg},
              !.why[pkg] = IF g.why[pkg] = None THEN <<S, reason>> ELSE @]
Claim(g, S, pkg, kind, reason) ==
    LET promoted == \E T \in StrictlyOuterSeeds(g, S) : pkg \in SeedClosure(g, T)
    IN  [g EXCEPT
           !.sets = [T \in DOMAIN g.sets |->
                       IF T = S
                       THEN [g.sets[T] EXCEPT ![kind] = @ \cup {pkg}]
                       ELSE IF T \in StrictlyOuterSeeds(g, S)
                       THEN [k \in Kinds |-> g.sets[T][k] \ {pkg}]
                       ELSE g.sets[T]],
           !.why[pkg] = IF g.why[pkg] = None \/ promoted THEN <<S, reason>> ELSE @]

\* Blacklist parsing records the names into the global exclusion set.
parse_blacklist(g, blacklist) == [g EXCEPT !.excluded = @ \cup blacklist]

\* A phase that would attribute an excluded name skips it and logs it into
\* blacklisted(S) of the originating seed.
Excluded(g, pkg) == pkg \in g.excluded

Attribute(g, S, pkg, kind, reason) ==
    IF Excluded(g, pkg)
    THEN [g EXCEPT !.blacklisted[S] = @ \cup {pkg}]
    ELSE Claim(g, S, pkg, kind, reason)

\* Phase 1, one seed: claim each entry no ancestor owns.
RECURSIVE PlantEntries(_, _, _)
PlantEntries(g, S, entries) ==
    IF entries = <<>> THEN g
    ELSE PlantEntries(IF Owned(g, S, Head(entries)) THEN g
                      ELSE Attribute(g, S, Head(entries), "seed_entries", "Explicit"),
                      S, Tail(entries))

RECURSIVE PlantLoop(_, _)
PlantLoop(g, order) ==
    IF order = <<>> THEN g
    ELSE PlantLoop(PlantEntries(g, Head(order), g.world.entries[Head(order)]), Tail(order))

plant_seeds(g) == [PlantLoop(g, g.world.order) EXCEPT !.pc = "planted"]

\* The relations of a dequeued package, in their fixed order.
Relations(g, S, P) ==
    [i \in 1..Len(SeqOf(g.world.depends[P])) |-> <<SeqOf(g.world.depends[P])[i], "depends">>]
    \o (IF g.world.follow_recommends
        THEN [i \in 1..Len(SeqOf(g.world.recommends[P])) |->
                 <<SeqOf(g.world.recommends[P])[i], "seed_recommends">>]
        ELSE <<>>)
    \o (IF g.world.build_depends
        THEN [i \in 1..Len(SeqOf(g.world.build[P])) |->
                 <<SeqOf(g.world.build[P])[i], "build_depends">>]
        ELSE <<>>)

\* Phase 2, one seed: the FIFO work queue and the relations still to resolve
\* for the package dequeued last.
RECURSIVE GrowQueue(_, _, _, _)
GrowQueue(g, S, todo, queue) ==
    IF todo # <<>>
    THEN IF Owned(g, S, Head(todo)[1])
         THEN GrowQueue(g, S, Tail(todo), queue)
         ELSE GrowQueue(Attribute(g, S, Head(todo)[1], Head(todo)[2], "DependedOnBy"),
                        S, Tail(todo),
                        IF Excluded(g, Head(todo)[1]) THEN queue
                        ELSE Append(queue, Head(todo)[1]))
    ELSE IF queue # <<>>
    THEN GrowQueue(g, S, Relations(g, S, Head(queue)), Tail(queue))
    ELSE g

RECURSIVE GrowLoop(_, _)
GrowLoop(g, order) ==
    IF order = <<>> THEN g
    ELSE GrowLoop(GrowQueue(g, Head(order), <<>>, SeqOf(g.sets[Head(order)]["seed_entries"])),
                  Tail(order))

grow(g) == [GrowLoop(g, g.world.order) EXCEPT !.pc = "grown"]

\* Phase 4: what the archive marks as necessary and no seed pulled goes to
\* the synthetic seed extra.
add_extras(g) ==
    [g EXCEPT !.pc = "done",
              !.sets["extra"]["seed_entries"] =
                  (g.world.essential \ g.excluded)
                      \ UNION {SeedClosure(g, S) : S \in Range(g.world.order)},
              !.blacklisted["extra"] =
                  (g.world.essential \cap g.excluded)
                      \ UNION {SeedClosure(g, S) : S \in Range(g.world.order)}]

NoGerminator ==
    GerminatorInit([order |-> <<>>, inherit |-> <<>>, entries |-> <<>>,
                    depends |-> <<>>, recommends |-> <<>>, build |-> <<>>,
                    follow_recommends |-> FALSE, build_depends |-> FALSE,
                    essential |-> {}])

\* plant_seeds and grow, one seed of the structure order at a time: i seeds
\* of the running phase are done.
PlantSeed ==
    /\ germ.pc \in {"new", "planting"}
    /\ germ.i < Len(germ.world.order)
    /\ LET S == germ.world.order[germ.i + 1]
           last == germ.i + 1 = Len(germ.world.order)
       IN  germ' = [PlantEntries(germ, S, germ.world.entries[S]) EXCEPT
                       !.i = IF last THEN 0 ELSE germ.i + 1,
                       !.pc = IF last THEN "planted" ELSE "planting"]
    /\ UNCHANGED <<seedVars, openers, atomic, tagfile, run, meta>>

GrowSeed ==
    /\ germ.pc \in {"planted", "growing"}
    /\ germ.i < Len(germ.world.order)
    /\ LET S == germ.world.order[germ.i + 1]
           last == germ.i + 1 = Len(germ.world.order)
       IN  germ' = [GrowQueue(germ, S, <<>>, SeqOf(germ.sets[S]["seed_entries"])) EXCEPT
                       !.i = IF last THEN 0 ELSE germ.i + 1,
                       !.pc = IF last THEN "grown" ELSE "growing"]
    /\ UNCHANGED <<seedVars, openers, atomic, tagfile, run, meta>>

PlantSeeds ==
    /\ germ.pc = "new"
    /\ germ' = plant_seeds(germ)
    /\ UNCHANGED <<seedVars, openers, atomic, tagfile, run, meta>>

\* The driver parses the blacklist seed, when there is one, between
\* plant_seeds and grow.
Blacklists == {{x} : x \in Range(PkgOrder)}

ParseBlacklist ==
    /\ germ.pc = "planted" /\ germ.excluded = {}
    /\ \E blacklist \in Blacklists : germ' = parse_blacklist(germ, blacklist)
    /\ UNCHANGED <<seedVars, openers, atomic, tagfile, run, meta>>

Grow ==
    /\ germ.pc = "planted"
    /\ germ' = grow(germ)
    /\ UNCHANGED <<seedVars, openers, atomic, tagfile, run, meta>>

AddExtras ==
    /\ germ.pc = "grown"
    /\ germ' = add_extras(germ)
    /\ UNCHANGED <<seedVars, openers, atomic, tagfile, run, meta>>

(***************************************************************************)
(* germinate-update-metapackage, main: the work on one output seed and one *)
(* architecture.  get_seed_entries and get_seed_recommends_entries give a  *)
(* list of packages per seed; a list file is absent or holds a set of      *)
(* package names.  additions, removals and moves collect <<package, list>> *)
(* records, list being the seed name or the seed name with "-recommends".  *)
(***************************************************************************)
Count(list, x) == Cardinality({i \in DOMAIN list : list[i] = x})

\* list.sort() on package names.
Sorted(list) ==
    Concat([k \in 1..Len(PkgOrder) |->
               [j \in 1..Count(list, PkgOrder[k]) |-> PkgOrder[k]]])

\* seed_packages(germinator_method, structure, seed_name): the packages of
\* every mapped seed, one list after the other.
seed_packages(germinator_method, mapped_seeds) ==
    Concat([k \in 1..Len(mapped_seeds) |-> germinator_method[mapped_seeds[k]]])

\* mapped_seeds when no seed_map option names the seed: the seeds of the
\* Task-Seeds header, then the seed itself unless it is among them.
MappedSeeds(task_seeds, seed_name) ==
    IF Contains(task_seeds, seed_name) THEN task_seeds ELSE Append(task_seeds, seed_name)

\* "work on the depends": what is kept of the packages.
NewList(m, packages) ==
    Sorted(SelectSeq(packages, LAMBDA package :
        /\ package # m.meta_name
        /\ ~(m.seed_name = "minimal" /\ package \notin m.debootstrap_base)
        /\ package \notin m.essential))

\* "work on the recommends"
NewRecommendsList(m, packages) ==
    Sorted(SelectSeq(packages, LAMBDA package :
        /\ package # m.meta_name
        /\ ~(m.seed_name = "minimal" /\ package \notin m.debootstrap_base)))

NoFile == [exists |-> FALSE, packages |-> {}]

ListFile(list) == [exists |-> TRUE, packages |-> Range(list)]

\* merged[package] += 1 for the new list, -= 1 for the old one, when the
\* old file existed; a package no list names counts 0.
Merged(old_list, new_list) ==
    [package \in Range(PkgOrder) |->
        IF old_list.exists
        THEN Count(new_list, package) - (IF package \in old_list.packages THEN 1 ELSE 0)
        ELSE 0]

\* for package, value in mergeditems
RECURSIVE MergedItems(_, _)
MergedItems(d, k) ==
    IF k > Len(PkgOrder) THEN d
    ELSE LET package == PkgOrder[k]
             value == d.merged[package]
         IN  MergedItems(
                 IF value = 1
                 THEN IF d.recommends_merged[package] = -1
                      THEN [d EXCEPT !.moves = Append(@, <<package, d.seed_name>>),
                                     !.recommends_merged[package] = @ + 1]
                      ELSE [d EXCEPT !.additions = Append(@, <<package, d.seed_name>>)]
                 ELSE IF value = -1
                 THEN IF d.recommends_merged[package] = 1
                      THEN [d EXCEPT !.moves = Append(@, <<package, d.seed_name_recommends>>),
                                     !.recommends_merged[package] = @ - 1]
                      ELSE [d EXCEPT !.removals = Append(@, <<package, d.seed_name>>)]
                 ELSE d,
                 k + 1)

\* for package, value in mergedrecitems
RECURSIVE MergedRecItems(_, _)
MergedRecItems(d, k) ==
    IF k > Len(PkgOrder) THEN d
    ELSE LET package == PkgOrder[k]
             value == d.recommends_merged[package]
         IN  MergedRecItems(
                 IF value = 1
                 THEN [d EXCEPT !.additions = Append(@, <<package, d.seed_name_recommends>>)]
                 ELSE IF value = -1
                 THEN [d EXCEPT !.removals = Append(@, <<package, d.seed_name_recommends>>)]
                 ELSE d,
                 k + 1)

\* "Calculate deltas"
CalculateDeltas(m) ==
    MergedRecItems(
        MergedItems([m EXCEPT !.merged = Merged(m.old_list, m.new_list),
                              !.recommends_merged =
                                  Merged(m.old_recommends_list, m.new_recommends_list)],
                    1),
        1)

MetaInit(w) ==
    [pc |-> "start", seed_name |-> w.seed_name,
     seed_name_recommends |-> w.seed_name \o "-recommends",
     meta_name |-> w.meta_name, essential |-> w.essential,
     debootstrap_base |-> w.debootstrap_base, task_seeds |-> w.task_seeds,
     seed_entries |-> w.seed_entries, seed_recommends_entries |-> w.seed_recommends_entries,
     output |-> w.output, output_old |-> NoFile,
     output_recommends |-> w.output_recommends, output_recommends_old |-> NoFile,
     old_list |-> NoFile, new_list |-> <<>>,
     old_recommends_list |-> NoFile, new_recommends_list |-> <<>>,
     merged |-> [x \in Range(PkgOrder) |-> 0],
     recommends_merged |-> [x \in Range(PkgOrder) |-> 0],
     additions |-> <<>>, removals |-> <<>>, moves |-> <<>>]

NoMeta ==
    MetaInit([seed_name |-> "none", meta_name |-> "none", essential |-> {},
              debootstrap_base |-> {}, task_seeds |-> <<>>, seed_entries |-> <<>>,
              seed_recommends_entries |-> <<>>, output |-> NoFile,
              output_recommends |-> NoFile])

\* The list files of the seed: the old ones read and renamed to .old, the
\* new ones written.
MetaLists ==
    /\ meta.pc = "start" /\ meta.seed_name # "none"
    /\ LET mapped_seeds == MappedSeeds(meta.task_seeds, meta.seed_name)
           new_list == NewList(meta, seed_packages(meta.seed_entries, mapped_seeds))
           new_recommends_list ==
               NewRecommendsList(meta, seed_packages(meta.seed_recommends_entries,
                                                     mapped_seeds))
       IN  meta' = [meta EXCEPT
                       !.pc = "lists",
                       !.old_list = meta.output,
                       !.output_old = IF meta.output.exists THEN meta.output ELSE @,
                       !.new_list = new_list,
                       !.output = ListFile(new_list),
                       !.old_recommends_list = meta.output_recommends,
                       !.output_recommends_old =
                           IF meta.output_recommends.exists THEN meta.output_recommends
                           ELSE @,
                       !.new_recommends_list = new_recommends_list,
                       !.output_recommends = ListFile(new_recommends_list)]
    /\ UNCHANGED <<seedVars, openers, atomic, tagfile, run, germ>>

MetaDeltas ==
    /\ meta.pc = "lists"
    /\ meta' = [CalculateDeltas(meta) EXCEPT !.pc = "done"]
    /\ UNCHANGED <<seedVars, openers, atomic, tagfile, run, germ>>

InitOthers ==
    /\ germ = NoGerminator /\ meta = NoMeta
    /\ run = NoRun
    /\ tagfile = NoTagFile
    /\ openers = NoOpeners
    /\ atomic = NoAtomic

InitCommon ==
    /\ vcs_cache = EmptyCache
    /\ seed = NoSeed
    /\ structure = NoStructure
    /\ call = NoCall
    /\ InitOthers

\* Construction followed by limit and add calls.
Init == remote \in SortedWorlds /\ InitCommon

Next == Construct \/ Limit \/ Add

Spec == Init /\ [][Next]_vars

\* Construction from STRUCTURE files in any order with any declared parents.
InitInherit == remote \in InheritWorlds /\ InitCommon

NextInherit == Construct

SpecInherit == InitInherit /\ [][NextInherit]_vars

\* Construction from branches that include one another, and the dot file
\* written from the result.
InitInclude == remote \in IncludeWorlds /\ InitCommon

NextInclude == Construct \/ WriteDot

SpecInclude == InitInclude /\ [][NextInclude]_vars

\* Seeds opened one after another in one process, sharing the checkout cache.
InitSeed == remote \in SeedWorlds /\ InitCommon

NextSeed == NewSeed

SpecSeed == InitSeed /\ [][NextSeed]_vars

\* Threads of one process opening seeds from git at the same time.
InitOpeners == remote \in {Served(NoRemote)} /\ InitCommon

NextOpeners ==
    \E p \in Openers :
        \/ OpenerCall(p)
        \/ OpenerTestCache(p)
        \/ OpenerMkdtemp(p)
        \/ OpenerTestCheckout(p)
        \/ OpenerStartClone(p)
        \/ OpenerCloneDone(p)
        \/ OpenerCloneFails(p)
        \/ OpenerOpen(p)

SpecOpeners == InitOpeners /\ [][NextOpeners]_vars

\* AtomicFile contexts on one filename, over files that may exist already.
\* Archives: what one mirror serves for each index.
TagfileTypes == {"Packages", "Sources", "InstallerPackages"}

Form(xz, bz2, gz, plain) ==
    [s \in Range(Suffixes) |->
        CASE s = ".xz" -> xz [] s = ".bz2" -> bz2 [] s = ".gz" -> gz [] OTHER -> plain]

PlainGood == Form("missing", "missing", "missing", "good")
Missing == Form("missing", "missing", "missing", "missing")
XzCorrupt == Form("corrupt", "missing", "missing", "missing")
PlainGarbage == Form("missing", "missing", "missing", "corrupt")
Faulty == {Missing, XzCorrupt, PlainGarbage}

Indexes(mirrors, dists, components) ==
    Range(mirrors) \X Range(dists) \X Range(components) \X TagfileTypes

\* Every index is served uncompressed, but for at most MaxFaults of them.
FaultyArchives(indexes) ==
    UNION {{[i \in indexes |-> IF i \in S THEN f[i] ELSE PlainGood] : f \in [S -> Faulty]} :
              S \in {T \in SUBSET indexes : Cardinality(T) <= MaxFaults}}

Prefixes(seq) == {SubSeq(seq, 1, n) : n \in 1..Len(seq)}

MirrorKinds == {"file", "remote"}

\* One TagFile on a file:// mirror, iterated by a consumer that may stop
\* early.
InitTagFile ==
    /\ remote \in {Served(NoRemote)}
    /\ vcs_cache = EmptyCache /\ seed = NoSeed /\ structure = NoStructure
    /\ call = NoCall /\ openers = NoOpeners /\ atomic = NoAtomic /\ run = NoRun /\ germ = NoGerminator /\ meta = NoMeta
    /\ tagfile \in
          UNION {{TagFileInit([index |-> w, kind |-> [m \in {"m1"} |-> "file"], lzma |-> z,
                               arch |-> "i386"],
                              ds, cs, <<"m1">>, <<>>, ip, cl) :
                     w \in FaultyArchives(Indexes(<<"m1">>, ds, cs)),
                     z \in BOOLEAN, ip \in BOOLEAN, cl \in BOOLEAN} :
                    ds \in Prefixes(<<"d1", "d2">>), cs \in Prefixes(<<"c1", "c2">>)}

NextTagFile == TagNext \/ TagClose

SpecTagFile == InitTagFile /\ [][NextTagFile]_vars

\* One Packages index served in any combination of its four forms.
Forms == {Form(xz, bz2, gz, plain) :
             xz \in {"missing", "good", "corrupt"}, bz2 \in {"missing", "good", "corrupt"},
             gz \in {"missing", "good", "corrupt"}, plain \in {"missing", "good", "corrupt"}}

FormArchives ==
    {[i \in Indexes(<<"m1">>, <<"d1">>, <<"c1">>) |->
         IF i[4] = "Packages" THEN f ELSE PlainGood] : f \in Forms}

InitTagFetch ==
    /\ remote \in {Served(NoRemote)}
    /\ vcs_cache = EmptyCache /\ seed = NoSeed /\ structure = NoStructure
    /\ call = NoCall /\ openers = NoOpeners /\ atomic = NoAtomic /\ run = NoRun /\ germ = NoGerminator /\ meta = NoMeta
    /\ tagfile \in {TagFileInit([index |-> w, kind |-> [m \in {"m1"} |-> k], lzma |-> z,
                                 arch |-> "i386"],
                                <<"d1">>, <<"c1">>, <<"m1">>, <<>>, FALSE, cl) :
                       w \in FormArchives, k \in MirrorKinds, z \in BOOLEAN, cl \in BOOLEAN}

SpecTagFetch == InitTagFetch /\ [][NextTagFile]_vars

\* TagFile objects for one architecture after the other in one working
\* directory, over a mirror that serves every index uncompressed.
InitTagArch ==
    /\ remote \in {Served(NoRemote)}
    /\ vcs_cache = EmptyCache /\ seed = NoSeed /\ structure = NoStructure
    /\ call = NoCall /\ openers = NoOpeners /\ atomic = NoAtomic /\ run = NoRun /\ germ = NoGerminator /\ meta = NoMeta
    /\ tagfile \in {TagFileInit([index |-> [i \in Indexes(<<"m1">>, <<"d1">>, <<"c1">>) |->
                                                PlainGood],
                                  kind |-> [m \in {"m1"} |-> k], lzma |-> TRUE, arch |-> a],
                                 <<"d1">>, <<"c1">>, <<"m1">>, <<>>, ip, cl) :
                       k \in MirrorKinds, a \in Archs, ip \in BOOLEAN, cl \in BOOLEAN}

NextTagArch == TagNext \/ TagClose \/ TagFileAgain

SpecTagArch == InitTagArch /\ [][NextTagArch]_vars

\* Runs of germinate: a seed collection with or without a blacklist seed,
\* or with a seed file missing, or no collection at all.
MainWorlds ==
    {Served(NoRemote)} \cup
    {Served([NoRemote EXCEPT ![<<FileBase, TopBranch>>] =
          PlainRepo(files, <<SeedLine("a", <<>>), SeedLine("b", pb)>>)]) :
        files \in {{"a", "b"}, {"a", "b", "blacklist"}, {"a", "blacklist"}},
        pb \in DistinctSeqs({"a"}, MaxParents)}

SeedPackages == {<<"a", "p">>, <<"q", "p">>}

MainOptions ==
    [want_rdepends : BOOLEAN, hints : BOOLEAN,
     seed_packages : DistinctSeqs(SeedPackages, MaxSeedPackages)]

InitMain ==
    /\ remote \in MainWorlds
    /\ vcs_cache = EmptyCache /\ seed = NoSeed /\ structure = NoStructure
    /\ call = NoCall /\ openers = NoOpeners /\ atomic = NoAtomic
    /\ tagfile = NoTagFile /\ germ = NoGerminator /\ meta = NoMeta
    /\ run \in {MainRun(o) : o \in MainOptions}

NextMain ==
    \/ MainParseArchive \/ MainHints \/ MainSeedStructure \/ MainAdd
    \/ MainPlantSeeds \/ MainBlacklist \/ MainGrow \/ MainAddExtras
    \/ MainReverseDepends \/ MainWriteSeed \/ MainWriteAll \/ MainRdepends
    \/ MainReturn

SpecMain == InitMain /\ [][NextMain]_vars

NoRelation == [x \in Range(PkgOrder) |-> {}]

\* Germinator worlds: seeds a, b, c where b inherits from a and c from
\* none, from a, or from a and b; b may come before a in structure order.
InitGerminator ==
    /\ remote \in {Served(NoRemote)}
    /\ vcs_cache = EmptyCache /\ seed = NoSeed /\ structure = NoStructure
    /\ call = NoCall /\ openers = NoOpeners /\ atomic = NoAtomic
    /\ tagfile = NoTagFile /\ run = NoRun /\ meta = NoMeta
    /\ germ \in {GerminatorInit(w) : w \in
          {[order |-> o, inherit |-> [a |-> <<>>, b |-> <<"a">>, c |-> ci], entries |-> e,
            depends |-> d, recommends |-> rb[1], follow_recommends |-> rb[1] # NoRelation,
            build |-> rb[2], build_depends |-> rb[2] # NoRelation, essential |-> ess] :
              o \in {<<"a", "b", "c">>, <<"b", "a", "c">>},
              ci \in {<<>>, <<"a">>, <<"a", "b">>},
              e \in [{"a", "b", "c"} -> DistinctSeqs(Range(PkgOrder), MaxEntries)],
              d \in {NoRelation, [NoRelation EXCEPT !["p"] = {"q"}],
                      [NoRelation EXCEPT !["p"] = {"q"}, !["q"] = {"r"}]},
              rb \in {NoRelation, [NoRelation EXCEPT !["p"] = {"r"}]}
                      \X {NoRelation, [NoRelation EXCEPT !["q"] = {"r"}]},
              ess \in {{}, {"r"}}}}

NextGerminator == PlantSeeds \/ Grow \/ AddExtras

SpecGerminator == InitGerminator /\ [][NextGerminator]_vars

\* The same phases seed by seed, over the worlds without Build-Depends and
\* without essential packages.
InitGerminatorSteps ==
    /\ remote \in {Served(NoRemote)}
    /\ vcs_cache = EmptyCache /\ seed = NoSeed /\ structure = NoStructure
    /\ call = NoCall /\ openers = NoOpeners /\ atomic = NoAtomic
    /\ tagfile = NoTagFile /\ run = NoRun /\ meta = NoMeta
    /\ germ \in {GerminatorInit(w) : w \in
          {[order |-> o, inherit |-> [a |-> <<>>, b |-> <<"a">>, c |-> ci], entries |-> e,
            depends |-> d, recommends |-> r, follow_recommends |-> r # NoRelation,
            build |-> NoRelation, build_depends |-> FALSE, essential |-> {}] :
              o \in {<<"a", "b", "c">>, <<"b", "a", "c">>},
              ci \in {<<>>, <<"a">>, <<"a", "b">>},
              e \in [{"a", "b", "c"} -> DistinctSeqs(Range(PkgOrder), MaxEntries)],
              d \in {NoRelation, [NoRelation EXCEPT !["p"] = {"q"}],
                      [NoRelation EXCEPT !["p"] = {"q"}, !["q"] = {"r"}]},
              r \in {NoRelation, [NoRelation EXCEPT !["p"] = {"r"}]}}}

NextGerminatorSteps == PlantSeed \/ GrowSeed \/ AddExtras

SpecGerminatorSteps == InitGerminatorSteps /\ [][NextGerminatorSteps]_vars

\* Runs with a blacklist seed: the phases in the driver's order, over seeds
\* a, b, c in that order.
InitBlacklist ==
    /\ remote \in {Served(NoRemote)}
    /\ vcs_cache = EmptyCache /\ seed = NoSeed /\ structure = NoStructure
    /\ call = NoCall /\ openers = NoOpeners /\ atomic = NoAtomic
    /\ tagfile = NoTagFile /\ run = NoRun /\ meta = NoMeta
    /\ germ \in {GerminatorInit(w) : w \in
          {[order |-> <<"a", "b", "c">>,
            inherit |-> [a |-> <<>>, b |-> <<"a">>, c |-> ci], entries |-> e,
            depends |-> d, recommends |-> r, follow_recommends |-> r # NoRelation,
            build |-> NoRelation, build_depends |-> FALSE, essential |-> ess] :
              ci \in {<<>>, <<"a">>, <<"a", "b">>},
              e \in [{"a", "b", "c"} -> DistinctSeqs(Range(PkgOrder), MaxEntries)],
              d \in {NoRelation, [NoRelation EXCEPT !["p"] = {"q"}],
                      [NoRelation EXCEPT !["p"] = {"q"}, !["q"] = {"r"}]},
              r \in {NoRelation, [NoRelation EXCEPT !["p"] = {"r"}]},
              ess \in {{}, {"r"}}}}

NextBlacklist == PlantSeeds \/ ParseBlacklist \/ Grow \/ AddExtras

SpecBlacklist == InitBlacklist /\ [][NextBlacklist]_vars

\* update-metapackage for the seed desktop or minimal, whose Task-Seeds
\* header names the seed s or no seed, over the packages p and q.
InitMeta ==
    /\ remote \in {Served(NoRemote)}
    /\ vcs_cache = EmptyCache /\ seed = NoSeed /\ structure = NoStructure
    /\ call = NoCall /\ openers = NoOpeners /\ atomic = NoAtomic
    /\ tagfile = NoTagFile /\ run = NoRun /\ germ = NoGerminator
    /\ meta \in {MetaInit(w) : w \in
          {[seed_name |-> sn, meta_name |-> mn, essential |-> ess,
            debootstrap_base |-> {"p"}, task_seeds |-> ts,
            seed_entries |-> [x \in {"s", sn} |-> SeqOf(e[x = sn])],
            seed_recommends_entries |-> [x \in {"s", sn} |-> SeqOf(r[x = sn])],
            output |-> of, output_recommends |-> orf] :
              sn \in {"desktop", "minimal"}, mn \in {"desktop-meta", "p"},
              ess \in {{}, {"q"}}, ts \in {<<>>, <<"s">>},
              e \in [BOOLEAN -> SUBSET {"p", "q"}],
              r \in [BOOLEAN -> SUBSET {"p", "q"}],
              of \in {NoFile} \cup {[exists |-> TRUE, packages |-> o] : o \in SUBSET {"p", "q"}},
              orf \in {NoFile} \cup {[exists |-> TRUE, packages |-> o] : o \in SUBSET {"p", "q"}}}}

NextMeta == MetaLists \/ MetaDeltas

SpecMeta == InitMeta /\ [][NextMeta]_vars

InitAtomic ==
    /\ remote \in {Served(NoRemote)}
    /\ vcs_cache = EmptyCache /\ seed = NoSeed /\ structure = NoStructure
    /\ call = NoCall /\ openers = NoOpeners /\ tagfile = NoTagFile /\ run = NoRun /\ germ = NoGerminator /\ meta = NoMeta
    /\ atomic \in {[NoAtomic EXCEPT !.file = f, !.new = n] :
                      f \in OldContents, n \in OldContents}

NextAtomic == AtomicInit \/ AtomicWrite \/ AtomicExit

SpecAtomic == InitAtomic /\ [][NextAtomic]_vars

(***************************************************************************)
(* What the seed collection on disk says, for stating the properties.      *)
(***************************************************************************)
StructureOf(branch) == Repo(FileBase, branch).structure

\* branch's STRUCTURE has a line "name: ..."
Defines(branch, name) ==
    \E i \in 1..Len(StructureOf(branch)) :
        StructureOf(branch)[i].kind = "seed" /\ StructureOf(branch)[i].name = name

\* The parents on the last line "name: ..." of branch's STRUCTURE.
DeclaredParents(branch, name) ==
    LET f == StructureOf(branch)
        last == CHOOSE i \in 1..Len(f) :
                    /\ f[i].kind = "seed" /\ f[i].name = name
                    /\ \A j \in (i + 1)..Len(f) : ~(f[j].kind = "seed" /\ f[j].name = name)
    IN  f[last].words

\* branch's STRUCTURE has a line "include ... other ..."
Includes(branch, other) ==
    \E i \in 1..Len(StructureOf(branch)) :
        StructureOf(branch)[i].kind = "include" /\ Contains(StructureOf(branch)[i].words, other)

HasSeedFile(branch, name) == name \in Repo(FileBase, branch).seeds

\* The structure takes seed name from branch: parents, text and branch.
TakenFrom(name, branch) ==
    /\ DictHas(structure.original_inherit, name)
    /\ DictGet(structure.original_inherit, name) = DeclaredParents(branch, name)
    /\ DictHas(structure.seeds, name)
    /\ DictGet(structure.seeds, name).text = FileText(FileBase, branch, name)
    /\ DictGet(structure.seeds, name).branch = branch

(***************************************************************************)
(* C1.  Override law for the top-level branch: when the structure is       *)
(* opened on branch T, T includes a branch S, and both define seed n (T    *)
(* with its seed file), the structure takes n from T: the parents of T's   *)
(* STRUCTURE line, T's seed text, and branch T.                            *)
(***************************************************************************)
C1_TopOverrides ==
    (/\ structure.status = "ok"
     /\ Defines(TopBranch, "n") /\ HasSeedFile(TopBranch, "n")
     /\ \E S \in IncludeBranches \ {TopBranch} :
            Includes(TopBranch, S) /\ Defines(S, "n"))
    => TakenFrom("n", TopBranch)

(***************************************************************************)
(* C2.  Override by seed name at every level: when a branch X included by  *)
(* the structure itself includes Y, both define seed n (X with its seed    *)
(* file), and no branch that includes X defines n, the structure takes     *)
(* n's parents and n's text from X, not from Y.                            *)
(***************************************************************************)
C2_InnerOverrides ==
    \A X \in IncludeBranches \ {TopBranch}, Y \in IncludeBranches \ {TopBranch} :
        (/\ structure.status = "ok"
         /\ X # Y
         /\ Contains(structure.fetched, X)
         /\ Includes(X, Y)
         /\ Defines(X, "n") /\ HasSeedFile(X, "n") /\ Defines(Y, "n")
         /\ \A B \in IncludeBranches : Includes(B, X) => ~Defines(B, "n"))
        => TakenFrom("n", X)

(***************************************************************************)
(* The declared parent relation of the constructed structure, and what     *)
(* the expanded inherit lists are to be compared with.                     *)
(***************************************************************************)
SeedNames == Range(structure.inherit.keys)

DeclaredOf(s) == DictGet(structure.original_inherit, s)

ExpandedOf(s) == DictGet(structure.inherit, s)

RECURSIVE ReachUp(_, _)
ReachUp(set, k) ==
    IF k = 0 THEN set
    ELSE ReachUp(set \cup UNION {Range(DeclaredOf(x)) : x \in set}, k - 1)

\* The transitive ancestors of s under the declared parent relation.
Ancestors(s) == ReachUp(Range(DeclaredOf(s)), Cardinality(SeedNames))

Acyclic == \A s \in SeedNames : s \notin Ancestors(s)

\* For each declared parent in order: the not-yet-listed members of the
\* parent's expanded list, then the parent itself if not yet listed.
RECURSIVE ParentsFirst(_, _)
ParentsFirst(parents, listed) ==
    IF parents = <<>> THEN listed
    ELSE LET P == Head(parents)
             more == SelectSeq(ExpandedOf(P), LAMBDA e : ~Contains(listed, e))
             withP == IF Contains(listed \o more, P) THEN listed \o more
                      ELSE (listed \o more) \o <<P>>
         IN  ParentsFirst(Tail(parents), withP)

ExpandedAsClaimed(s) ==
    /\ NoDup(ExpandedOf(s))
    /\ Range(ExpandedOf(s)) = Ancestors(s)
    /\ ExpandedOf(s) = ParentsFirst(DeclaredOf(s), <<>>)

(***************************************************************************)
(* C3 as stated.  After construction the inherit list of every seed is     *)
(* exactly its transitive ancestors under the declared parent relation,    *)
(* without duplicates, ordered parent by parent (the parent's expansion,   *)
(* then the parent), whatever the order of the STRUCTURE lines.            *)
(***************************************************************************)
C3_ExpandedIsClosure ==
    structure.status = "ok" => \A s \in SeedNames : ExpandedAsClaimed(s)

(***************************************************************************)
(* C3 amended.  The same, for a declared parent relation without cycles:   *)
(* after construction from an acyclic STRUCTURE, in any line order, every  *)
(* inherit list is the seed's transitive ancestors, without duplicates,    *)
(* ordered parent by parent.                                               *)
(***************************************************************************)
C3_ExpandedIsClosureAcyclic ==
    (structure.status = "ok" /\ Acyclic) => \A s \in SeedNames : ExpandedAsClaimed(s)

\* A seed listed before its parents, with two declared parents of which the
\* first already inherits from the second.
C3_Witness ==
    /\ structure.status = "ok" /\ Acyclic
    /\ \E s \in SeedNames :
          /\ Len(DeclaredOf(s)) = 2
          /\ DeclaredOf(s)[2] \in Ancestors(DeclaredOf(s)[1])
          /\ IndexOf(structure.inherit.keys, s)
                 < IndexOf(structure.inherit.keys, DeclaredOf(s)[2])
          /\ IndexOf(structure.inherit.keys, s)
                 < IndexOf(structure.inherit.keys, DeclaredOf(s)[1])
          /\ ExpandedOf(s) = <<DeclaredOf(s)[2], DeclaredOf(s)[1]>>

(***************************************************************************)
(* C4.  Inner and outer seeds are dual in every state reached by           *)
(* construction and any limit and add calls: for all A and B in names,     *)
(* A is in outer_seeds(B) exactly when B is in inner_seeds(A);             *)
(* inner_seeds(S) ends with S and outer_seeds(S) starts with S.            *)
(***************************************************************************)
C4_InnerOuterDual ==
    structure.status = "ok" =>
        \A A \in Range(names(structure)), B \in Range(names(structure)) :
            /\ inner_seeds(structure, A) # KeyError
            /\ outer_seeds(structure, B) # KeyError
            /\ Contains(outer_seeds(structure, B), A)
                   <=> Contains(inner_seeds(structure, A), B)
            /\ inner_seeds(structure, A)[Len(inner_seeds(structure, A))] = A
            /\ Head(outer_seeds(structure, B)) = B

(***************************************************************************)
(* C5 as stated.  The seed returned by supported is the transitive sink:   *)
(* every other seed of the structure is among inner_seeds(supported).      *)
(***************************************************************************)
C5_SupportedIsSink ==
    structure.status = "ok" =>
        \A s \in Range(structure.seed_order) \ {supported(structure)} :
            Contains(inner_seeds(structure, supported(structure)), s)

\* The name on the last seed line of the top branch's STRUCTURE.
LastSeedLine ==
    LET f == StructureOf(TopBranch)
        last == CHOOSE i \in 1..Len(f) :
                    f[i].kind = "seed" /\ \A j \in (i + 1)..Len(f) : f[j].kind # "seed"
    IN  f[last].name

(***************************************************************************)
(* C5 amended.  The seed returned by supported is the last seed in         *)
(* structure order, the one named on the last seed line of the top         *)
(* branch's STRUCTURE, in every state reached by limit and add calls;      *)
(* it is a sink only if STRUCTURE makes it inherit from the other seeds.   *)
(***************************************************************************)
C5_SupportedIsLast ==
    structure.status = "ok" => supported(structure) = LastSeedLine

\* After a limit that leaves another seed last in names, with a seed of the
\* structure that supported does not inherit from.
C5_Witness ==
    /\ structure.status = "ok" /\ call.op = "limit"
    /\ names(structure) # <<>>
    /\ names(structure)[Len(names(structure))] # supported(structure)
    /\ \E s \in Range(structure.seed_order) \ {supported(structure)} :
           ~Contains(inner_seeds(structure, supported(structure)), s)

(***************************************************************************)
(* C6.  After limit(L), names consists exactly of the seeds in L and       *)
(* their transitive ancestors, each a seed of the structure, each listed   *)
(* once, each after every seed it inherits from.                           *)
(***************************************************************************)
C6_LimitNames ==
    (structure.status = "ok" /\ call.op = "limit") =>
        LET ns == names(structure)
            L == call.seeds
        IN  /\ Range(ns) \subseteq SeedNames
            /\ Range(ns) = Range(L) \cup UNION {Range(ExpandedOf(s)) : s \in Range(L)}
            /\ \A s \in Range(ns) \cap SeedNames : Range(ExpandedOf(s)) \subseteq Range(ns)
            /\ NoDup(ns)
            /\ \A i \in 1..Len(ns) : ns[i] \in SeedNames =>
                   \A q \in Range(ExpandedOf(ns[i])) :
                       \E j \in 1..(i - 1) : ns[j] = q

\* The documented text of a custom seed: each entry followed by a newline,
\* and a lone newline when there are no entries.
EntriesText(entries) ==
    IF entries = <<>> THEN <<"\n">>
    ELSE [i \in 1..(2 * Len(entries)) |->
              IF i % 2 = 1 THEN entries[(i + 1) \div 2] ELSE "\n"]

(***************************************************************************)
(* C7.  add(name, entries, parent) with an existing parent makes name a    *)
(* seed of the structure and a member of names, gives it the parent's      *)
(* expanded inherit list followed by the parent, so that inner_seeds(name) *)
(* is the parent's former inner_seeds followed by name, and maps it to a   *)
(* custom seed with the entries joined by newlines plus a trailing         *)
(* newline and with no base and no branch; the inherit list and the text   *)
(* of every other seed are unchanged.                                      *)
(***************************************************************************)
C7_AddWithParent ==
    [][(call'.op = "add" /\ call'.n = call.n + 1 /\ call'.parent # None) =>
          LET name == call'.name
              parent == call'.parent
          IN  /\ DictHas(structure'.seeds, name)
              /\ Contains(names(structure'), name)
              /\ DictGet(structure'.inherit, name)
                     = Append(DictGet(structure.inherit, parent), parent)
              /\ inner_seeds(structure', name)
                     = Append(inner_seeds(structure, parent), name)
              /\ DictGet(structure'.seeds, name).text = EntriesText(call'.entries)
              /\ DictGet(structure'.seeds, name).base = None
              /\ DictGet(structure'.seeds, name).branch = None
              /\ \A other \in Range(structure.inherit.keys) \ {name} :
                     /\ DictHas(structure'.inherit, other)
                     /\ DictGet(structure'.inherit, other)
                            = DictGet(structure.inherit, other)
                     /\ DictGet(structure'.seeds, other)
                            = DictGet(structure.seeds, other)
    ]_vars

\* An add of two entries under a parent that itself inherits, replacing an
\* existing seed of the structure.
C7_Witness ==
    /\ structure.status = "ok" /\ call.op = "add"
    /\ call.parent # None /\ call.name = "a" /\ call.parent # "a"
    /\ Len(call.entries) = 2
    /\ Len(DictGet(structure.inherit, call.parent)) >= 1
    /\ DictGet(structure.inherit, "a")
           = Append(DictGet(structure.inherit, call.parent), call.parent)
    /\ DictGet(structure.seeds, "a").text = <<" * p", "\n", " * q", "\n">>

\* The (base, branch) pairs in the documented order: bases in order and,
\* within each base, branches in order.
PairsInOrder(bases, branches) ==
    [k \in 1..(Len(bases) * Len(branches)) |->
        <<bases[((k - 1) \div Len(branches)) + 1],
          branches[((k - 1) % Len(branches)) + 1]>>]

\* The pair can be opened: opening it on its own gives the seed's text.
CanBeOpened(pair, name, vcs) ==
    open_seed(EmptyCache, pair[1], pair[2], name, vcs, <<>>).outcome = "ok"

(***************************************************************************)
(* C8.  Seed(bases, branches, name) takes its text from the first          *)
(* (base, branch) pair that can be opened, bases in order and branches in  *)
(* order within each base, and records exactly that pair as its base and   *)
(* branch; it raises SeedError if no pair can be opened.                   *)
(***************************************************************************)
C8_FirstOpenablePair ==
    call.op = "seed" =>
        LET pairs == PairsInOrder(call.bases, call.branches)
            good == {k \in 1..Len(pairs) : CanBeOpened(pairs[k], call.name, call.vcs)}
        IN  IF good = {}
            THEN seed.status = "SeedError"
            ELSE LET first == CHOOSE k \in good : \A m \in good : k <= m
                 IN  /\ seed.status = "ok"
                     /\ <<seed.base, seed.branch>> = pairs[first]
                     /\ seed.text = FileText(pairs[first][1], pairs[first][2], call.name)

(***************************************************************************)
(* C9 as stated.  With VCS auto-detection selected, a base whose prefix    *)
(* identifies git or bzr is fetched with that VCS, and every other base    *)
(* is fetched as a plain URL, never through a VCS command.                 *)
(***************************************************************************)
C9_AutoOthersByUrl ==
    (call.op = "seed" /\ call.vcs = AUTO) =>
        \A k \in 1..Len(seed.cmds) :
            LET tool == seed.cmds[k][1]
                base == seed.cmds[k][2]
            IN  tool = (IF StartsWith(base, "git") THEN "git"
                        ELSE IF StartsWith(base, "bzr") THEN "bzr"
                        ELSE "url")

(***************************************************************************)
(* C9 amended.  With VCS auto-detection selected, a base that starts with  *)
(* "git" is fetched with git and one that starts with "bzr" with bzr;      *)
(* every other base is fetched with git clone and, when that fails, with   *)
(* bzr for the same base and branch; no base is fetched as a plain URL.    *)
(* A plain URL fetch is what happens when no VCS is selected.              *)
(***************************************************************************)
C9_AutoTriesBoth ==
    call.op = "seed" =>
        \A k \in 1..Len(seed.cmds) :
            LET tool == seed.cmds[k][1]
                base == seed.cmds[k][2]
                branch == seed.cmds[k][3]
            IN  /\ call.vcs = None => tool = "url"
                /\ call.vcs = AUTO =>
                      IF StartsWith(base, "git") THEN tool = "git"
                      ELSE IF StartsWith(base, "bzr") THEN tool = "bzr"
                      ELSE \/ tool = "git" /\ Repo(base, branch).kind = "git"
                           \/ /\ tool = "git" /\ Repo(base, branch).kind # "git"
                              /\ k < Len(seed.cmds)
                              /\ seed.cmds[k + 1] = <<"bzr", base, branch>>
                           \/ /\ tool = "bzr"
                              /\ k > 1
                              /\ seed.cmds[k - 1] = <<"git", base, branch>>
                              /\ Repo(base, branch).kind # "git"

\* Auto-detection has run git and then bzr on the HTTP base, and git alone
\* on the git base.
C9_Witness ==
    /\ call.op = "seed" /\ call.vcs = AUTO
    /\ \E k \in 1..(Len(seed.cmds) - 1) :
           /\ seed.cmds[k][1] = "git" /\ seed.cmds[k][2] = HttpBase
           /\ seed.cmds[k + 1] = <<"bzr", HttpBase, seed.cmds[k][3]>>
    /\ \E k \in 1..Len(seed.cmds) : seed.cmds[k][1] = "git" /\ seed.cmds[k][2] = GitBase

(***************************************************************************)
(* C10.  For every successfully constructed Seed, after any earlier seed   *)
(* opens, the recorded base is the base the text was read from: a seed     *)
(* reporting base B was read from a checkout of B, never from a cached     *)
(* checkout of another base for the same branch name.                      *)
(***************************************************************************)
C10_RecordedBaseIsRead ==
    (call.op = "seed" /\ seed.status = "ok") =>
        seed.text = FileText(seed.base, seed.branch, seed.name)

(***************************************************************************)
(* C11.  The VCS checkout cache has a single writer per branch directory:  *)
(* with concurrent opens at most one clone is ever started into a branch's *)
(* cache directory, no opener reads a seed from a directory before the     *)
(* clone into it has completed, and the shared cache directory is created  *)
(* only once.                                                              *)
(***************************************************************************)
C11_SingleWriter ==
    /\ \A c \in Checkouts : openers.started[c] <= 1
    /\ \A p \in Openers :
           openers.th[p].pc = "returned" => openers.th[p].read = "complete"
    /\ openers.made <= 1

(***************************************************************************)
(* C12.  When an AtomicFile(filename) context exits without an exception,  *)
(* filename exists and holds exactly what was written inside the context   *)
(* and filename.new no longer exists; until that exit nothing is written   *)
(* to filename itself: it is as it was when the object was created.        *)
(***************************************************************************)
C12_AtomicOnCleanExit ==
    /\ (atomic.state = "exited" /\ atomic.exc = None) =>
           /\ atomic.file # Absent
           /\ atomic.file = atomic.written
           /\ atomic.new = Absent
    /\ atomic.state = "open" =>
           /\ atomic.file = atomic.before
           /\ atomic.new = atomic.written

\* A clean exit after two writes over an existing file and a stale
\* filename.new.
C12_Witness ==
    /\ atomic.state = "exited" /\ atomic.exc = None
    /\ atomic.before = <<"old">>
    /\ Len(atomic.written) = 2
    /\ atomic.file = atomic.written

\* The edge lines of the dot file written.
DotEdgesWritten == SelectSeq(atomic.file, LAMBDA line : Len(line) = 3)

(***************************************************************************)
(* C13.  write_dot writes exactly one edge line "P" -> "S" for every seed  *)
(* S and every parent P declared for S on its STRUCTURE line (declared     *)
(* parents, not the expanded list) and no other edge, also when S is       *)
(* defined in more than one branch of an include chain.                    *)
(***************************************************************************)
C13_DotEdgesOnce ==
    (structure.status = "ok" /\ atomic.state = "exited") =>
        /\ NoDup(DotEdgesWritten)
        /\ Range(DotEdgesWritten)
               = UNION {{<<P, "->", S>> : P \in Range(DeclaredOf(S))} : S \in SeedNames}

\* The place of a yielded item in the configured iteration: dists in order,
\* within a dist the components in order, within a pair the index types.
RankOf(dist, component, index_type) ==
    ((IndexOf(tagfile.dists, dist) - 1) * Len(tagfile.components)
        + (IndexOf(tagfile.components, component) - 1)) * 3 + index_type

Rank(item) ==
    RankOf(item[2][3], item[2][4],
           CHOOSE ty \in {PACKAGES, SOURCES, INSTALLER_PACKAGES} :
               TagfileType(ty) = item[2][1])

\* The stanzas the archive holds for the configured indexes that sections()
\* is asked for, each labelled with its index type.
ServedItems ==
    UNION {{<<q[1], Stanzas(tagfile.env, q[2], q[3], q[4], TagfileType(q[1]), q[5])[k]>> :
               k \in 1..StanzasPerIndex} :
              q \in {x \in {PACKAGES, SOURCES, INSTALLER_PACKAGES}
                            \X Range(tagfile.mirrors) \X Range(tagfile.dists)
                            \X Range(tagfile.components) \X Range(Suffixes) :
                        /\ x[1] = INSTALLER_PACKAGES => tagfile.installer_packages
                        /\ tagfile.env.index[<<x[2], x[3], x[4], TagfileType(x[1])>>][x[5]]
                               = "good"}}

(***************************************************************************)
(* C14.  sections() yields the stanzas dist by dist in configured order,   *)
(* within a dist component by component in configured order, and within a  *)
(* (dist, component) pair all PACKAGES stanzas, then all SOURCES stanzas,  *)
(* then all INSTALLER_PACKAGES stanzas: no item is yielded right after an  *)
(* item of a later place, each item carries the type of the index it came  *)
(* from, an exhausted iteration has yielded every stanza served exactly    *)
(* once, and no INSTALLER_PACKAGES item is yielded when installer packages *)
(* are disabled.                                                           *)
(***************************************************************************)
C14_SectionsOrder ==
    LET y == tagfile.yielded
    IN  /\ \A i \in 1..Len(y) : TagfileType(y[i][1]) = y[i][2][1]
        /\ \A i \in 1..(Len(y) - 1) : Rank(y[i]) <= Rank(y[i + 1])
        /\ ~tagfile.installer_packages =>
               \A i \in 1..Len(y) : y[i][1] # INSTALLER_PACKAGES
        /\ tagfile.pc = "done" => NoDup(y) /\ Range(y) = ServedItems

\* An exhausted iteration over two dists and two components with installer
\* packages enabled and every index served.
C14_Witness ==
    /\ tagfile.pc = "done"
    /\ Len(tagfile.dists) = 2 /\ Len(tagfile.components) = 2
    /\ tagfile.installer_packages
    /\ Len(tagfile.yielded) = 12 * StanzasPerIndex

\* No mirror asked for the index serves it in any form.
IndexMissing(e) ==
    \A m \in Range(IF e.type = SOURCES THEN tagfile.source_mirrors ELSE tagfile.mirrors) :
        \A s \in Range(Suffixes) :
            tagfile.env.index[<<m, e.dist, e.component, TagfileType(e.type)>>][s] = "missing"

LastPair(e) ==
    /\ e.dist = tagfile.dists[Len(tagfile.dists)]
    /\ e.component = tagfile.components[Len(tagfile.components)]

MissingInstaller == {k \in 1..Len(tagfile.opened) :
                        /\ tagfile.opened[k].type = INSTALLER_PACKAGES
                        /\ IndexMissing(tagfile.opened[k])}

(***************************************************************************)
(* C15.  When sections() comes to a Packages or a Sources index that is    *)
(* missing, it raises an error and has yielded (and will yield) no stanza  *)
(* of that index or of a later one.  When it comes to a missing            *)
(* InstallerPackages index it logs the absence and does not raise: it goes *)
(* on to the Packages index of the next (dist, component) pair, or ends    *)
(* normally after the last pair.                                           *)
(***************************************************************************)
C15_MissingIndex ==
    /\ Len(tagfile.log) = Cardinality(MissingInstaller)
    /\ \A k \in 1..Len(tagfile.opened) :
           LET e == tagfile.opened[k]
           IN  IndexMissing(e) =>
                   IF e.type = INSTALLER_PACKAGES
                   THEN /\ Contains(tagfile.log,
                                    <<"Missing installer Packages file", e.component>>)
                        /\ IF LastPair(e)
                           THEN k = Len(tagfile.opened) /\ tagfile.pc = "done"
                           ELSE /\ k < Len(tagfile.opened)
                                /\ tagfile.opened[k + 1].type = PACKAGES
                                /\ RankOf(tagfile.opened[k + 1].dist,
                                          tagfile.opened[k + 1].component, PACKAGES)
                                       = RankOf(e.dist, e.component, e.type) + 1
                   ELSE /\ tagfile.pc = "raised" /\ tagfile.exc = "IOError"
                        /\ k = Len(tagfile.opened)
                        /\ \A i \in 1..Len(tagfile.yielded) :
                               Rank(tagfile.yielded[i]) < RankOf(e.dist, e.component, e.type)

\* A missing InstallerPackages index was passed and a stanza of the next
\* (dist, component) pair has been yielded.
C15_Witness ==
    /\ tagfile.pc = "suspended"
    /\ \E k \in MissingInstaller :
           /\ k < Len(tagfile.opened)
           /\ Rank(tagfile.yielded[Len(tagfile.yielded)])
                  > RankOf(tagfile.opened[k].dist, tagfile.opened[k].component,
                           INSTALLER_PACKAGES)

\* A form that can be fetched and decompressed, and what it holds.
Usable(e, m, k) ==
    LET form == tagfile.env.index[<<m, e.dist, e.component, TagfileType(e.type)>>]
    IN  form[Suffixes[k]] = "good" \/ (Suffixes[k] = "" /\ form[Suffixes[k]] = "corrupt")

ContentOf(e, m, k) ==
    IF tagfile.env.index[<<m, e.dist, e.component, TagfileType(e.type)>>][Suffixes[k]] = "good"
    THEN Stanzas(tagfile.env, m, e.dist, e.component, TagfileType(e.type), Suffixes[k])
    ELSE <<Garbage>>

(***************************************************************************)
(* C16.  For each index asked of a mirror the forms are tried in the order *)
(* .xz, .bz2, .gz, uncompressed; what is delivered is the content of the   *)
(* first form that can be fetched and decompressed, no form after it is    *)
(* consulted, and an index served in a single form is delivered.           *)
(***************************************************************************)
C16_FirstUsableForm ==
    \A n \in 1..Len(tagfile.opened) :
        LET e == tagfile.opened[n]
            m == tagfile.mirrors[1]
            usable == {k \in 1..Len(Suffixes) : Usable(e, m, k)}
            First(S) == CHOOSE k \in S : \A j \in S : k <= j
        IN  IF usable = {}
            THEN e.outcome = "IOError"
            ELSE /\ e.outcome = "ok"
                 /\ e.tag_files = <<ContentOf(e, m, First(usable))>>
                 /\ e.consulted = [i \in 1..First(usable) |-> <<m, Suffixes[i]>>]

(***************************************************************************)
(* C17.  With cleanup enabled, the temporary directory sections() creates  *)
(* exists only while the generator is suspended at a yield: once the       *)
(* iteration has ended, by exhaustion, by an error raised while an index   *)
(* is fetched or parsed, or by the consumer closing the generator, the     *)
(* directory is removed and no downloaded index file is left.              *)
(***************************************************************************)
C17_TempDirRemoved ==
    tagfile.cleanup =>
        /\ tagfile.dirname = "temp" => tagfile.pc = "suspended"
        /\ tagfile.pc \in {"done", "raised", "closed"} =>
               /\ tagfile.dirname \in {"none", "removed"}
               /\ tagfile.files = NoFiles
        /\ tagfile.pc \in {"done", "raised"} => tagfile.dirname = "removed"

\* The consumer closed the generator after some items, with index files
\* downloaded, and the directory is gone.
C17_Witness ==
    /\ tagfile.cleanup /\ tagfile.pc = "closed"
    /\ tagfile.yielded # <<>> /\ tagfile.opened # <<>>
    /\ tagfile.dirname = "removed" /\ tagfile.files = NoFiles

\* The place of a phase in the documented order of a run.
PhaseRank(phase) ==
    CASE phase = "parse_archive" -> 1
      [] phase = "SeedStructure" -> 2
      [] phase = "add" -> 3
      [] phase = "plant_seeds" -> 4
      [] phase = "parse_blacklist" -> 5
      [] phase = "grow" -> 6
      [] phase = "add_extras" -> 7
      [] phase = "reverse_depends" -> 8
      [] OTHER -> 0

\* The calls of a run that belong to the documented phases.
Phases == SelectSeq(run.phases, LAMBDA ph : PhaseRank(ph) > 0)

(***************************************************************************)
(* C18.  The phases of a run are called in the order archive parse, seed   *)
(* structure load with the custom seeds added, plant_seeds, blacklist      *)
(* parse, grow, add_extras, reverse_depends; each at most once (add once   *)
(* per custom seed); reverse_depends only when reverse dependencies are    *)
(* wanted; no output file exists before grow and add_extras were called;   *)
(* and a run that returns has called every phase but, possibly, the        *)
(* blacklist parse.                                                        *)
(***************************************************************************)
C18_PhaseOrder ==
    /\ \A i, j \in 1..Len(Phases) :
           i < j => \/ PhaseRank(Phases[i]) < PhaseRank(Phases[j])
                    \/ Phases[i] = "add" /\ Phases[j] = "add"
    /\ Cardinality({i \in 1..Len(Phases) : Phases[i] = "add"})
           <= Len(run.options.seed_packages)
    /\ Contains(Phases, "reverse_depends") => run.options.want_rdepends
    /\ run.outputs # <<>> =>
           /\ Contains(Phases, "grow") /\ Contains(Phases, "add_extras")
           /\ run.options.want_rdepends => Contains(Phases, "reverse_depends")
    /\ run.pc = "returned" =>
           \A ph \in {"parse_archive", "SeedStructure", "plant_seeds", "grow", "add_extras"} :
               Contains(Phases, ph)

\* A run with a custom seed, a blacklist and reverse dependencies that has
\* returned.
C18_Witness ==
    /\ run.pc = "returned" /\ run.status = 0
    /\ run.options.want_rdepends /\ run.options.seed_packages # <<>>
    /\ Phases = <<"parse_archive", "SeedStructure", "add", "plant_seeds",
                  "parse_blacklist", "grow", "add_extras", "reverse_depends">>
    /\ Contains(run.outputs, "p.seedtext")

Finished == run.pc \in {"returned", "exited", "raised"}

(***************************************************************************)
(* C19.  A SeedError raised while the seed structure is loaded or by       *)
(* plant_seeds ends the run with status 1, with grow not called and no     *)
(* output file written, and the run exits that way for no other reason.    *)
(* A SeedError raised when the blacklist seed is opened (or parsed) is     *)
(* caught: the run goes on, calls grow, writes its output and returns 0.   *)
(***************************************************************************)
C19_SeedErrorHandling ==
    /\ structure.status = "SeedError" =>
           run.pc = "exited" /\ run.exc = "SeedError"
    /\ run.pc = "exited" =>
           /\ run.status = 1 /\ run.exc = "SeedError"
           /\ run.phases[Len(run.phases)] \in {"SeedStructure", "plant_seeds"}
           /\ ~Contains(run.phases, "grow")
           /\ run.outputs = <<>>
    /\ run.exc = "SeedError" => run.pc = "exited"
    /\ run.caught # <<>> =>
           /\ run.pc # "exited" /\ run.exc = None
           /\ Finished =>
                  /\ run.pc = "returned" /\ run.status = 0
                  /\ Contains(run.phases, "grow")
                  /\ Contains(run.outputs, "structure") /\ Contains(run.outputs, "blacklisted")

\* The collection has no blacklist seed, the SeedError was caught and the
\* run returned 0 with its output written.
C19_Witness ==
    /\ seed.status = "SeedError" /\ seed.name = "blacklist"
    /\ run.caught = <<"Seed">>
    /\ run.pc = "returned" /\ run.status = 0
    /\ Contains(run.phases, "grow") /\ Contains(run.outputs, "all")

\* The (seed, set) pairs a package is attributed to.
Owners(pkg) ==
    {q \in (DOMAIN germ.sets) \X Kinds : pkg \in germ.sets[q[1]][q[2]]}

TotalClosure == UNION {SeedClosure(germ, S) : S \in DOMAIN germ.sets}

C21_InheritanceSuppression ==
    \A B \in Range(germ.world.order) : \A A \in InnerSeeds(germ, B) \ {B} :
        \A k \in Kinds : germ.sets[B][k] \cap SeedClosure(germ, A) = {}

\* Growing a has just promoted q, which its heir b had planted, to a.
C21_Witness ==
    /\ germ.pc = "growing" /\ germ.i = 1
    /\ germ.world.order = <<"a", "b", "c">>
    /\ Contains(germ.world.entries["b"], "q")
    /\ germ.why["q"] = <<"a", "DependedOnBy">>
    /\ "q" \in germ.sets["a"]["depends"]
    /\ "q" \notin SeedClosure(germ, "b")

C24_EachBranchParsedOnce ==
    call.op # "none" =>
        /\ structure.status # "none"
        /\ NoDup(structure.fetched)
        /\ Range(structure.fetched) \subseteq IncludeBranches
        /\ Len(structure.fetched) <= Cardinality(IncludeBranches)

\* T includes itself and X, X and Y include each other, and both T and X
\* reach Y.
C24_Witness ==
    /\ structure.status = "ok"
    /\ Includes("T", "T") /\ Includes("T", "X")
    /\ Includes("X", "Y") /\ Includes("X", "T")
    /\ Includes("Y", "X") /\ Includes("Y", "Y")
    /\ structure.fetched = <<"T", "X", "Y">>

(***************************************************************************)
(* C25.  add(name, entries) with no parent makes a seed that inherits from *)
(* nothing: its inherit list is empty, inner_seeds(name) is name alone,    *)
(* and every element of every inherit list is the name of a seed.          *)
(***************************************************************************)
C25_AddWithoutParent ==
    [][(call'.op = "add" /\ call'.n = call.n + 1 /\ call'.parent = None) =>
          LET name == call'.name
          IN  /\ DictGet(structure'.inherit, name) = <<>>
              /\ inner_seeds(structure', name) = <<name>>
              /\ \A s \in Range(structure'.inherit.keys) :
                     Range(DictGet(structure'.inherit, s))
                         \subseteq Range(structure'.seeds.keys)
    ]_vars

(***************************************************************************)
(* C26.  In every state reached by constructing a structure and calling    *)
(* limit and add in any order, an add of a name that is already a seed and *)
(* the same add twice included, names holds no seed name more than once.   *)
(***************************************************************************)
C26_NamesDistinct == NoDup(names(structure))

(***************************************************************************)
(* C27.  While the body of an AtomicFile context runs, and after it has    *)
(* raised, filename holds what it held before (nothing, if it did not      *)
(* exist): the partial output stays in filename.new and is never renamed   *)
(* over the target, so filename holds either the complete old or the       *)
(* complete new content.                                                   *)
(***************************************************************************)
C27_AtomicOnError ==
    /\ atomic.state = "open" => atomic.file = atomic.before
    /\ (atomic.state = "exited" /\ atomic.exc # None) =>
           /\ atomic.file = atomic.before
           /\ atomic.new = atomic.written
    /\ (atomic.state # "none" /\ atomic.file # atomic.before) =>
           /\ atomic.state = "exited" /\ atomic.exc = None
           /\ atomic.file = atomic.written

\* The body raised after one write over an existing file.
C27_Witness ==
    /\ atomic.state = "exited" /\ atomic.exc = "Exception"
    /\ atomic.before = <<"old">>
    /\ Len(atomic.written) = 1
    /\ atomic.file = <<"old">>
    /\ atomic.new = atomic.written

(***************************************************************************)
(* C28.  On a remote mirror with cleanup disabled, every Packages stanza   *)
(* sections() yields for a TagFile of architecture A comes from the        *)
(* mirror's binary-A index, also when a TagFile for another architecture   *)
(* was iterated in the same working directory before: a downloaded index   *)
(* is reused only for the same architecture.                               *)
(***************************************************************************)
C28_PackagesOfOwnArch ==
    (tagfile.mirrors # <<>> /\ tagfile.env.kind[tagfile.mirrors[1]] = "remote"
        /\ ~tagfile.cleanup) =>
        \A i \in 1..Len(tagfile.yielded) :
            tagfile.yielded[i][1] = PACKAGES =>
                tagfile.yielded[i][2][7] = FtpPath(tagfile.env.arch, "Packages")

(***************************************************************************)
(* C29.  Every tag file _open_tag_files returns for a mirror holds the     *)
(* complete content of one of the forms the mirror serves for that index   *)
(* (.xz, .bz2, .gz or uncompressed): an attempt that fails while it        *)
(* downloads or decompresses leaves no file that is then delivered, so no  *)
(* empty or partial index is returned as a success.                        *)
(***************************************************************************)
C29_DeliveredIsServed ==
    \A n \in 1..Len(tagfile.opened) :
        LET e == tagfile.opened[n]
            m == tagfile.mirrors[1]
        IN  e.outcome = "ok" =>
                \A i \in 1..Len(e.tag_files) :
                    \E k \in 1..Len(Suffixes) :
                        Usable(e, m, k) /\ e.tag_files[i] = ContentOf(e, m, k)


(***************************************************************************)
(* C30.  In update-metapackage, for an output seed and architecture whose  *)
(* previous list files exist, a package is recorded as a change exactly    *)
(* when its membership differs between the previous and the new depends or *)
(* recommends list, and then once: as a move when it switched between the  *)
(* two lists, otherwise as an addition to or a removal from the list that  *)
(* changed.  A package of both the previous and the new list is never      *)
(* recorded, also when the new list names it more than once.               *)
(***************************************************************************)
C30_ChangesRecordedOnce ==
    (meta.pc = "done" /\ meta.old_list.exists /\ meta.old_recommends_list.exists) =>
        \A x \in Range(PkgOrder) :
            LET oldD == x \in meta.old_list.packages
                newD == x \in Range(meta.new_list)
                oldR == x \in meta.old_recommends_list.packages
                newR == x \in Range(meta.new_recommends_list)
                toSeed == ~oldD /\ newD /\ oldR /\ ~newR
                toRecommends == oldD /\ ~newD /\ ~oldR /\ newR
                switched == toSeed \/ toRecommends
                Once(records, list, expected) ==
                    Count(records, <<x, list>>) = IF expected THEN 1 ELSE 0
            IN  /\ Once(meta.moves, meta.seed_name, toSeed)
                /\ Once(meta.moves, meta.seed_name_recommends, toRecommends)
                /\ Once(meta.additions, meta.seed_name, ~switched /\ ~oldD /\ newD)
                /\ Once(meta.additions, meta.seed_name_recommends,
                        ~switched /\ ~oldR /\ newR)
                /\ Once(meta.removals, meta.seed_name, ~switched /\ oldD /\ ~newD)
                /\ Once(meta.removals, meta.seed_name_recommends,
                        ~switched /\ oldR /\ ~newR)

=============================================================================
